---- MODULE Spec2Model ----
(***************************************************************************)
(* A model of the room planner's placement core: the zustand room store    *)
(* (furniture, scanned items, selection, isDragging, detail-mode target,   *)
(* undo stack), the DraggableFurniture and ScannedModel drag handlers, the *)
(* sidebar handlers and the DetailEditMode window listeners.               *)
(*                                                                         *)
(* Numbers.  Lengths of the source are metres in floating point.  The      *)
(* model keeps them exact in integers: dimensions and pointer hits are in  *)
(* millimetres, positions in units of 1/PosScale mm, so that half a        *)
(* dimension times |cos| or |sin| (TrigScale-ths) is an integer.  |cos|    *)
(* and |sin| are tabulated for the multiples of 45 degrees, the only       *)
(* rotations the sidebar's rotate buttons produce.                         *)
(***************************************************************************)
EXTENDS Integers, Sequences, FiniteSets, TLC

\* ------------------------------------------------------------------ bounds
MaxItems == 2      \* furniture items alive at once
MaxIds == 3        \* ids generateId hands out in one run with pointers
MaxScanned == 1    \* scanned items alive at once
MaxPointers == 2   \* pointers that are down at once (multi-touch)
MaxRotSteps == 1   \* rotation is kept within 0 .. 45 * MaxRotSteps degrees
MaxOps == 21       \* saveForUndo calls in one run of the undo scenario
MaxUndoItems == 1  \* furniture items alive at once in the undo scenario
MaxDetailVisits == 1 \* times the detail mode is entered in one run
MaxStackDepth == 2 \* snapshots on the stack when an edit saves another
MaxSnaps == 2      \* snapToGrid applied to its own result
MaxBooks == 12     \* books on the host when an arrangement tool is used
MaxArrangements == 2 \* arrangement tools used one after the other
MaxEdits == 1      \* items edited (rotated, resized, recoloured, turned) at once

\* ------------------------------------------------------- program constants
UndoLimit == 20          \* slice(-20) in saveForUndo
TrigScale == 1000        \* |cos|, |sin| are in thousandths
PosScale == 2000         \* position units per millimetre (2 * TrigScale)
Cos45 == 707             \* |cos 45| = |sin 45| in thousandths
SmallShrink == 50        \* collision shrink of a small item, per cent
LargeShrink == 95        \* collision shrink of a large item, per cent
SmallGrid == 5           \* snap cell of a small item, mm (0.005)
GridDivisor == 4         \* snap cell of a large item is gridSize / 4
DefaultGridSize == 100   \* gridSize: 0.1
RoomWidth == 5000        \* roomDimensions.width: 5
RoomLength == 4000       \* roomDimensions.length: 4
RoomHeight == 2800       \* roomDimensions.height: 2.8
DetailMargin == 20       \* 0.02 inset of the detail-mode clamp, mm
NearbyMargin == 500      \* 0.5 added to the host's larger side in DetailScene, mm
RotateStep == 45         \* handleRotate(45) / handleRotate(-45)
ShelfOffset == 20        \* 0.02 above the host's bottom in handleDrop, mm
ShelfCount == 4          \* shelfCount of a bookshelf host
DropMargin == 50         \* 0.05 inset of handleDrop's clamp, mm
BooksMargin == 100       \* 0.1 added to half the host's larger side, mm
ImportGridSize == 250    \* data.gridSize || 0.25
PerCent == 100              \* sizeVariant 1 is written 100
BaseOffset == 20            \* arrangements: baseY = host y + 0.02
RowMargin == 50             \* arrangeRow: startX = left edge + 0.05
RowGap == 5                 \* arrangeRow: currentX += bookWidth + 0.005
ShrineLimit == 11           \* arrangeShrine: basicBooks.slice(0, 11)
ShrineRaise == 10           \* arrangeShrine: baseY + 0.01
ShrineForward == 20         \* arrangeShrine: centerZ + 0.02
ShrineInset == 8            \* arrangeShrine: halfCenterWidth + 0.008
ShrineGap == 2              \* arrangeShrine: bookDepth + 0.002
StackGap == 2               \* arrangeStack: bookHeight + 0.002
SpaceMargin == 50           \* spaceEvenly: minX, maxX inset by 0.05
Null == 0                \* null: no id


\* ------------------------------------------------------------- the catalog
\* The part of FURNITURE_CATALOG the model places: a large item (which can
\* host detail mode) and a small one; the shelf is catalogued for the hosts
\* of arrangements.
ModelTypes == {"desk", "book"}

FURNITURE_CATALOG(type) ==
  CASE type = "desk" ->
         [dimensions |-> [width |-> 1200, height |-> 750, depth |-> 600],
          defaultColor |-> "#d4c4b0"]
    [] type = "bookshelf" ->
         [dimensions |-> [width |-> 800, height |-> 1200, depth |-> 300],
          defaultColor |-> "#8b5a2b"]
    [] type = "book" ->
         [dimensions |-> [width |-> 150, height |-> 220, depth |-> 30],
          defaultColor |-> "#8B4513"]
    [] type = "book_stack" ->
         [dimensions |-> [width |-> 200, height |-> 150, depth |-> 150],
          defaultColor |-> "#654321"]
    [] type = "manga" ->
         [dimensions |-> [width |-> 110, height |-> 170, depth |-> 20],
          defaultColor |-> "#f0f0f0"]

smallTypes ==
  {"book", "book_stack", "manga", "gojo_manga", "kaws_figure", "murakami_flower",
   "picture_frame", "vase", "lamp_small", "clock", "trophy", "plant"}

isSmallItem(type) == type \in smallTypes

largeTypes ==
  {"bed", "king_bed", "twin_bed", "bunk_bed", "desk", "l_desk", "standing_desk",
   "gaming_desk", "bookshelf", "tall_bookshelf", "dresser", "wardrobe",
   "nightstand", "coffee_table", "dining_table", "side_table", "console_table",
   "tv_stand", "couch", "sectional_couch", "loveseat", "armchair",
   "kitchen_island", "filing_cabinet", "storage_cube"}

isLargeFurniture(type) == type \in largeTypes

isBookType(type) == type \in {"book", "book_stack", "manga"}

\* ---------------------------------------------------------------- numbers
Max(a, b) == IF a >= b THEN a ELSE b
Min(a, b) == IF a <= b THEN a ELSE b
Abs(a) == IF a >= 0 THEN a ELSE -a

\* Math.round(n / d) for d > 0: the nearest integer, a half rounding up.
MathRound(n, d) == (2 * n + d) \div (2 * d)

\* |cos| and |sin| of a rotation in degrees, in TrigScale-ths.
AbsCos(rotation) ==
  CASE rotation % 180 = 0 -> TrigScale
    [] rotation % 180 = 90 -> 0
    [] OTHER -> Cos45

AbsSin(rotation) ==
  CASE rotation % 180 = 0 -> 0
    [] rotation % 180 = 90 -> TrigScale
    [] OTHER -> Cos45

\* millimetres to position units
Mm(v) == v * PosScale


\* ------------------------------------------------------------------ state
VARIABLES
  furniture,        \* store: FurnitureItem[]
  scannedItems,     \* store: PlacedScannedItem[]
  selectedId,       \* store: id or Null
  selectedType,     \* store: "furniture", "scanned" or "null"
  isDragging,       \* store: the shared flag the camera controls read
  detailModeTarget, \* store: id of the detail-mode host or Null
  undoStack,        \* store: snapshots of furniture, oldest first
  canUndo,          \* store
  gridSize,         \* store, mm
  roomDimensions,   \* store, mm
  nextId,           \* the next id generateId returns
  session,          \* per mounted component: its drag gesture and local flags
  orphanPointers,   \* pointers still down whose component unmounted mid-drag
  lastEvent,        \* what the last handler did (observation only)
  hist,             \* the undo scenario's counters (observation only)
  undefinedFields,  \* store: the fields whose value is undefined
  exported,         \* the text exportRoom() returned last
  importResult,     \* what importRoom() returned last
  probe,            \* a coordinate put through snapToGrid
  makerspace        \* the makerspace store, its database and pending calls

vars ==
  <<furniture, scannedItems, selectedId, selectedType, isDragging,
    detailModeTarget, undoStack, canUndo, gridSize, roomDimensions, nextId,
    session, orphanPointers, lastEvent, hist, undefinedFields, exported,
    importResult, probe, makerspace>>

\* what only the settings, the import and export, the snap probe and the
\* makerspace write
storeRest ==
  <<gridSize, roomDimensions, undefinedFields, exported, importResult, probe,
    makerspace>>

\* A text: json is whether JSON.parse accepts it; fields are the top-level
\* keys of the object it parses to, the other entries their values (the value
\* of an absent key is not read).
NotJson ==
  [json |-> FALSE, fields |-> {},
   roomDimensions |-> [width |-> 0, length |-> 0, height |-> 0],
   furniture |-> <<>>, scannedItems |-> <<>>, gridSize |-> 0]

NoProbe == [type |-> "desk", grid |-> 0, v |-> 0, snapped |-> 0, calls |-> 0]

NoPos == <<>>

\* the makerspace store as created, over an empty database; no call pending
LibraryIdle ==
  [db |-> {}, items |-> <<>>, isLoading |-> FALSE, error |-> "null",
   load |-> [pc |-> "idle", models |-> <<>>],
   add |-> [pc |-> "idle", id |-> 0],
   queue |-> <<>>]

IdleSession == [active |-> FALSE, startPos |-> NoPos]

Ev(kind, id, startPos, collision, sound, saved) ==
  [kind |-> kind, id |-> id, startPos |-> startPos, collision |-> collision,
   sound |-> sound, saved |-> saved]

Other(saved) == Ev("other", Null, NoPos, FALSE, FALSE, saved)

\* ------------------------------------------------------- store operations
Indices(seq) == 1 .. Len(seq)

IdsOf(seq) == {seq[k].id : k \in Indices(seq)}

\* Array.prototype.find(f => f.id === id): the first match.
Find(seq, id) == seq[CHOOSE k \in Indices(seq) :
                       seq[k].id = id /\ \A j \in 1 .. (k - 1) : seq[j].id # id]

\* Array.prototype.filter
RECURSIVE Filter(_, _)
Filter(seq, id) ==
  IF seq = <<>> THEN <<>>
  ELSE IF Head(seq).id = id THEN Filter(Tail(seq), id)
       ELSE <<Head(seq)>> \o Filter(Tail(seq), id)

\* getRandomSizeVariant(), in per cent, as the sidebar and the drop draw it
SizeVariants == {100}

\* orientation "none" and sizeVariant 0 stand for a field the item lacks
addFurniture(furn, item, id, variant) ==
  LET withId == [item EXCEPT !.id = id]
      oriented == IF isBookType(item.type) /\ withId.orientation = "none"
                  THEN [withId EXCEPT !.orientation = "upright"]
                  ELSE withId
      newItem == IF isBookType(item.type) /\ oriented.sizeVariant = 0
                 THEN [oriented EXCEPT !.sizeVariant = variant]
                 ELSE oriented
  IN Append(furn, newItem)

removeFurniture(furn, id) == Filter(furn, id)

updateFurniturePosition(furn, id, position) ==
  [k \in Indices(furn) |->
     IF furn[k].id = id THEN [furn[k] EXCEPT !.position = position] ELSE furn[k]]

updateFurnitureRotation(furn, id, rotation) ==
  [k \in Indices(furn) |->
     IF furn[k].id = id THEN [furn[k] EXCEPT !.rotation = rotation] ELSE furn[k]]

updateScannedItemPosition(scanned, id, position) ==
  [k \in Indices(scanned) |->
     IF scanned[k].id = id THEN [scanned[k] EXCEPT !.position = position]
     ELSE scanned[k]]

\* JSON.parse(JSON.stringify(furniture)): every item rebuilt from its own
\* enumerable fields; a field that is undefined (orientation "none") is
\* dropped by stringify and reads back as undefined.
JsonClone(furn) ==
  [k \in Indices(furn) |->
     [id |-> furn[k].id, type |-> furn[k].type,
      position |-> <<furn[k].position[1], furn[k].position[2], furn[k].position[3]>>,
      rotation |-> furn[k].rotation,
      dimensions |-> [width |-> furn[k].dimensions.width,
                      height |-> furn[k].dimensions.height,
                      depth |-> furn[k].dimensions.depth],
      color |-> furn[k].color,
      orientation |-> furn[k].orientation,
      sizeVariant |-> furn[k].sizeVariant]]

\* Array.prototype.slice(-n)
SliceLast(seq, n) ==
  IF Len(seq) <= n THEN seq ELSE SubSeq(seq, Len(seq) - n + 1, Len(seq))

\* variant: no slice(-20)
saveForUndoUnbounded(stack, furn) == Append(stack, JsonClone(furn))

saveForUndo(stack, furn) == SliceLast(Append(stack, JsonClone(furn)), UndoLimit)


\* ---------------------------------------- DraggableFurniture: pure helpers
\* variant: always the next cell up, Math.floor(v / fineGrid) + 1
snapToGridNext(type, grid, v) ==
  LET fineGrid == IF isSmallItem(type) THEN Mm(SmallGrid) ELSE Mm(grid) \div GridDivisor
  IN (v \div fineGrid + 1) * fineGrid

\* snapToGrid: v in position units; the cell is 0.005 for a small item and
\* gridSize / 4 for a large one.
snapToGrid(type, grid, v) ==
  LET fineGrid == IF isSmallItem(type) THEN Mm(SmallGrid) ELSE Mm(grid) \div GridDivisor
  IN MathRound(v, fineGrid) * fineGrid

\* halfWidth * cos + halfDepth * sin, in position units
effectiveHalfWidth(item) ==
  item.dimensions.width * AbsCos(item.rotation)
    + item.dimensions.depth * AbsSin(item.rotation)

effectiveHalfDepth(item) ==
  item.dimensions.width * AbsSin(item.rotation)
    + item.dimensions.depth * AbsCos(item.rotation)

\* clampPosition: the room clamp of normal mode
clampPosition(item, room, x, z) ==
  LET roomHalfWidth == Mm(room.width) \div 2
      roomHalfLength == Mm(room.length) \div 2
  IN <<Max(-roomHalfWidth + effectiveHalfWidth(item),
           Min(roomHalfWidth - effectiveHalfWidth(item), x)),
       Max(-roomHalfLength + effectiveHalfDepth(item),
           Min(roomHalfLength - effectiveHalfDepth(item), z))>>

\* the detail-mode clamp of the drag handler: the host's and the item's
\* nominal width and depth, whatever their rotations
clampToTarget(item, target, x, z) ==
  LET halfW == Mm(target.dimensions.width) \div 2 - Mm(item.dimensions.width) \div 2
                 - Mm(DetailMargin)
      halfD == Mm(target.dimensions.depth) \div 2 - Mm(item.dimensions.depth) \div 2
                 - Mm(DetailMargin)
  IN <<Max(target.position[1] - halfW, Min(target.position[1] + halfW, x)),
       Max(target.position[3] - halfD, Min(target.position[3] + halfD, z))>>

shrinkOf(type) == IF isSmallItem(type) THEN SmallShrink ELSE LargeShrink

\* The collision box of an item placed at (x, y, z), every bound multiplied
\* by 100 so that the per-cent shrink stays an integer.
BoxAt(item, x, y, z) ==
  LET shrink == shrinkOf(item.type)
  IN [minX |-> 100 * x - effectiveHalfWidth(item) * shrink,
      maxX |-> 100 * x + effectiveHalfWidth(item) * shrink,
      minY |-> 100 * y,
      maxY |-> 100 * y + Mm(item.dimensions.height) * shrink,
      minZ |-> 100 * z - effectiveHalfDepth(item) * shrink,
      maxZ |-> 100 * z + effectiveHalfDepth(item) * shrink]

BoxOf(item) == BoxAt(item, item.position[1], item.position[2], item.position[3])

\* variant: boxes that touch count as overlapping
OverlapOrTouch(a, b) ==
  /\ a.minX <= b.maxX /\ a.maxX >= b.minX
  /\ a.minY <= b.maxY /\ a.maxY >= b.minY
  /\ a.minZ <= b.maxZ /\ a.maxZ >= b.minZ

\* the full 3D AABB test of checkCollision
Overlap(a, b) ==
  /\ a.minX < b.maxX /\ a.maxX > b.minX
  /\ a.minY < b.maxY /\ a.maxY > b.minY
  /\ a.minZ < b.maxZ /\ a.maxZ > b.minZ

\* variant: the small-on-small skip left out
bothSmallNever(myType, otherType) == FALSE

bothSmall(myType, otherType) == isSmallItem(myType) /\ isSmallItem(otherType)

\* variant: the host of the detail mode is a partner like any other
collidesWithHost(item, x, y, z, other, target) ==
  /\ other.id # item.id
  /\ ~bothSmall(item.type, other.type)
  /\ Overlap(BoxAt(item, x, y, z), BoxOf(other))

\* one turn of checkCollision's loop: does `other` make it return true
collidesWith(item, x, y, z, other, target) ==
  /\ other.id # item.id
  /\ ~(target # Null /\ other.id = target)
  /\ ~bothSmall(item.type, other.type)
  /\ Overlap(BoxAt(item, x, y, z), BoxOf(other))

checkCollision(item, x, y, z, furn, target) ==
  \E k \in Indices(furn) : collidesWith(item, x, y, z, furn[k], target)

\* ------------------------------------------------ which components exist
\* DetailScene's nearbyItems
nearby(f, target) ==
  LET dx == Abs(f.position[1] - target.position[1])
      dz == Abs(f.position[3] - target.position[3])
      maxRange == Mm(Max(target.dimensions.width, target.dimensions.depth))
                    + Mm(NearbyMargin)
  IN f.id # target.id /\ dx < maxRange /\ dz < maxRange

\* ids whose DraggableFurniture is mounted: every item in the room scene,
\* the host's nearby items in the detail scene
mountedFurniture(furn, target) ==
  IF target = Null THEN IdsOf(furn)
  ELSE IF target \notin IdsOf(furn) THEN {}
  ELSE {furn[k].id : k \in {j \in Indices(furn) : nearby(furn[j], Find(furn, target))}}

\* ids whose ScannedModel is mounted: the room scene only
mountedScanned(scanned, target) == IF target = Null THEN IdsOf(scanned) ELSE {}

mounted(furn, scanned, target) ==
  mountedFurniture(furn, target) \cup mountedScanned(scanned, target)

\* A component that unmounts loses its gesture and its local state; the
\* Scene and the DetailScene are different trees, so a change between room
\* mode and detail mode unmounts every component.
kept(furn, scanned, target) ==
  IF (target = Null) # (detailModeTarget = Null) THEN {}
  ELSE mounted(furn, scanned, target)

\* one gesture per mounted component: a component that stays keeps its
\* session, a new one starts idle
sessionsAfter(sess, furn, scanned, target) ==
  [i \in mounted(furn, scanned, target) |->
     IF i \in DOMAIN sess /\ i \in kept(furn, scanned, target) THEN sess[i]
     ELSE IdleSession]

orphansAfter(sess, furn, scanned, target) ==
  orphanPointers
    + Cardinality({i \in DOMAIN sess :
                     sess[i].active /\ i \notin kept(furn, scanned, target)})

activeSessions == {i \in DOMAIN session : session[i].active}

pointersDown == Cardinality(activeSessions) + orphanPointers


\* ------------------------------------------------------------------- Init
\* The store as create() builds it, no component mounted, no pointer down.
InitStore ==
  /\ furniture = <<>>
  /\ scannedItems = <<>>
  /\ selectedId = Null
  /\ selectedType = "null"
  /\ isDragging = FALSE
  /\ detailModeTarget = Null
  /\ undoStack = <<>>
  /\ canUndo = FALSE
  /\ gridSize = DefaultGridSize
  /\ roomDimensions = [width |-> RoomWidth, length |-> RoomLength, height |-> RoomHeight]
  /\ nextId = 1
  /\ session = [i \in {} |-> IdleSession]
  /\ orphanPointers = 0
  /\ lastEvent = Other(FALSE)
  /\ hist = [phase |-> "do", nSaved |-> 0, nUndone |-> 0, nDetail |-> 0]
  /\ undefinedFields = {}
  /\ exported = NotJson
  /\ importResult = "none"

Init == InitStore /\ probe = NoProbe /\ makerspace = LibraryIdle

\* the furniture, with the components and pointers that follow from it
SetFurniture(furn) ==
  /\ furniture' = furn
  /\ session' = sessionsAfter(session, furn, scannedItems, detailModeTarget)
  /\ orphanPointers' = orphansAfter(session, furn, scannedItems, detailModeTarget)

\* selectedFurniture of the sidebar
hasSelectedFurniture == selectedType = "furniture" /\ selectedId \in IdsOf(furniture)

\* ------------------------------------------------------- sidebar handlers
\* handleAddFurniture: saveForUndo(), then addFurniture at the origin
AddFurnitureStep(type) ==
  /\ detailModeTarget = Null
  /\ undoStack' = saveForUndo(undoStack, furniture)
  /\ canUndo' = TRUE
  /\ \E variant \in SizeVariants : SetFurniture(addFurniture(furniture,
       [id |-> Null, type |-> type, position |-> <<0, 0, 0>>, rotation |-> 0,
        dimensions |-> FURNITURE_CATALOG(type).dimensions,
        color |-> FURNITURE_CATALOG(type).defaultColor, orientation |-> "none",
        sizeVariant |-> 0],
       nextId, variant))
  /\ nextId' = nextId + 1
  /\ lastEvent' = Other(TRUE)
  /\ UNCHANGED <<scannedItems, selectedId, selectedType, isDragging,
                 detailModeTarget, storeRest>>

HandleAddFurniture(type) == AddFurnitureStep(type) /\ UNCHANGED hist

\* the Delete button: saveForUndo(); removeFurniture(selectedId)
DeleteButtonStep ==
  /\ detailModeTarget = Null
  /\ hasSelectedFurniture
  /\ undoStack' = saveForUndo(undoStack, furniture)
  /\ canUndo' = TRUE
  /\ SetFurniture(removeFurniture(furniture, selectedId))
  /\ selectedId' = Null
  /\ lastEvent' = Other(TRUE)
  /\ UNCHANGED <<scannedItems, selectedType, isDragging, detailModeTarget,
                 storeRest, nextId>>

DeleteButton == DeleteButtonStep /\ UNCHANGED hist

\* handleKeyDown of the selected item's component: Delete or Backspace
KeyDelete(i) ==
  /\ i \in mountedFurniture(furniture, detailModeTarget)
  /\ selectedId = i
  /\ SetFurniture(removeFurniture(furniture, i))
  /\ selectedId' = Null
  /\ lastEvent' = Other(FALSE)
  /\ UNCHANGED <<scannedItems, selectedType, isDragging, detailModeTarget,
                 undoStack, canUndo, storeRest, nextId, hist>>

\* handleRotate(delta)
HandleRotate(delta) ==
  /\ detailModeTarget = Null
  /\ hasSelectedFurniture
  /\ LET newRotation == (Find(furniture, selectedId).rotation + delta + 360) % 360
     IN /\ newRotation <= RotateStep * MaxRotSteps
        /\ SetFurniture(updateFurnitureRotation(furniture, selectedId, newRotation))
  /\ lastEvent' = Other(FALSE)
  /\ UNCHANGED <<scannedItems, selectedId, selectedType, isDragging,
                 detailModeTarget, undoStack, canUndo, storeRest, nextId, hist>>

\* the Edit Details button: setDetailModeTarget(selectedId); DetailEditMode
\* mounts and its effect resets isDragging
EditDetails ==
  /\ detailModeTarget = Null
  /\ hasSelectedFurniture
  /\ isLargeFurniture(Find(furniture, selectedId).type)
  /\ detailModeTarget' = selectedId
  /\ isDragging' = FALSE
  /\ session' = sessionsAfter(session, furniture, scannedItems, selectedId)
  /\ orphanPointers' = orphansAfter(session, furniture, scannedItems, selectedId)
  /\ lastEvent' = Other(FALSE)
  /\ hist' = [hist EXCEPT !.nDetail = @ + 1]
  /\ UNCHANGED <<furniture, scannedItems, selectedId, selectedType, undoStack,
                 canUndo, storeRest, nextId>>

\* Escape or the close button: setDetailModeTarget(null); the effect's
\* cleanup resets isDragging
ExitDetailMode ==
  /\ detailModeTarget # Null
  /\ detailModeTarget' = Null
  /\ isDragging' = FALSE
  /\ session' = sessionsAfter(session, furniture, scannedItems, Null)
  /\ orphanPointers' = orphansAfter(session, furniture, scannedItems, Null)
  /\ lastEvent' = Other(FALSE)
  /\ UNCHANGED <<furniture, scannedItems, selectedId, selectedType, undoStack,
                 canUndo, storeRest, nextId, hist>>

\* ------------------------------------------------------------------- undo
\* variant: no early return, and `previousState || []`
undoFurnitureOrEmpty(stack, furn) == IF Len(stack) = 0 THEN <<>> ELSE stack[Len(stack)]

\* variant: the popped snapshot is not restored
undoFurnitureKept(stack, furn) == furn

undoFurniture(stack, furn) == IF Len(stack) = 0 THEN furn ELSE stack[Len(stack)]

undoStackAfter(stack) == IF Len(stack) = 0 THEN stack ELSE SubSeq(stack, 1, Len(stack) - 1)

\* variant: canUndo computed from the stack before the pop
undoCanUndoStale(stack, can) == Len(stack) > 0

undoCanUndo(stack, can) == IF Len(stack) = 0 THEN can ELSE Len(stack) - 1 > 0

\* variant: undo() also clears the selection, as deleteFurniture does
UndoStepDeselect ==
  /\ SetFurniture(undoFurniture(undoStack, furniture))
  /\ undoStack' = undoStackAfter(undoStack)
  /\ canUndo' = undoCanUndo(undoStack, canUndo)
  /\ selectedId' = Null
  /\ selectedType' = "null"
  /\ lastEvent' = Ev("undo", Null, NoPos, FALSE, FALSE, FALSE)
  /\ UNCHANGED <<scannedItems, isDragging, detailModeTarget, storeRest, nextId>>

\* the store's undo()
UndoStep ==
  /\ SetFurniture(undoFurniture(undoStack, furniture))
  /\ undoStack' = undoStackAfter(undoStack)
  /\ canUndo' = undoCanUndo(undoStack, canUndo)
  /\ lastEvent' = Ev("undo", Null, NoPos, FALSE, FALSE, FALSE)
  /\ UNCHANGED <<scannedItems, selectedId, selectedType, isDragging,
                 detailModeTarget, storeRest, nextId>>

\* Ctrl+Z / Cmd+Z, and the detail mode's Undo button: if (canUndo) undo()
UndoKey == canUndo /\ UndoStep /\ UNCHANGED hist


\* -------------------------------------------------------- pointer input
\* Where the pointer's ray meets the drag plane, (x, z) in millimetres: the
\* origin (where the sidebar adds items) and a point off the snap grid, beyond
\* the room's wall in x and inside the room in z.
PointerHits == {<<0, 0>>, <<2612, 1513>>}

\* ------------------------------------- DraggableFurniture: the drag handler
\* the handler's call with first = true
DragFirst(i) ==
  /\ i \in mountedFurniture(furniture, detailModeTarget)
  /\ ~session[i].active
  /\ session' = [session EXCEPT ![i] = [active |-> TRUE,
                                         startPos |-> Find(furniture, i).position]]
  /\ isDragging' = TRUE
  /\ selectedId' = i
  /\ selectedType' = "furniture"
  /\ lastEvent' = Other(FALSE)
  /\ UNCHANGED <<furniture, scannedItems, detailModeTarget, undoStack, canUndo,
                 storeRest, nextId, orphanPointers, hist>>

\* variant: the moved item is put on the floor
movedPositionGround(item, hit, furn, target, grid, room) ==
  LET newX == snapToGrid(item.type, grid, Mm(hit[1]))
      newZ == snapToGrid(item.type, grid, Mm(hit[2]))
      xz == IF target # Null /\ target \in IdsOf(furn)
            THEN clampToTarget(item, Find(furn, target), newX, newZ)
            ELSE clampPosition(item, room, newX, newZ)
  IN <<xz[1], 0, xz[2]>>

\* the position a pointer-move writes: snap, then the clamp of the mode
movedPosition(item, hit, furn, target, grid, room) ==
  LET currentY == item.position[2]
      newX == snapToGrid(item.type, grid, Mm(hit[1]))
      newZ == snapToGrid(item.type, grid, Mm(hit[2]))
      xz == IF target # Null /\ target \in IdsOf(furn)
            THEN clampToTarget(item, Find(furn, target), newX, newZ)
            ELSE clampPosition(item, room, newX, newZ)
  IN <<xz[1], currentY, xz[2]>>

\* the handler's call on a pointer-move (active, not first)
DragMove(i, hit) ==
  /\ i \in IdsOf(furniture)
  /\ i \in DOMAIN session
  /\ session[i].active
  /\ LET item == Find(furniture, i)
         p == movedPosition(item, hit, furniture, detailModeTarget, gridSize,
                            roomDimensions)
         furn == updateFurniturePosition(furniture, i, p)
     IN /\ SetFurniture(furn)
        /\ lastEvent' = Other(FALSE)
  /\ UNCHANGED <<scannedItems, selectedId, selectedType, isDragging,
                 detailModeTarget, undoStack, canUndo, storeRest, nextId, hist>>

\* the verdict at release: revert only when the live position collides
releaseReverts(item, memo, furn, target) ==
  /\ checkCollision(item, item.position[1], item.position[2], item.position[3],
                    furn, target)
  /\ memo # NoPos

\* variant: the release leaves the live position
releasedFurnitureLive(item, memo, furn, target) == furn

\* the furniture after the release
releasedFurniture(item, memo, furn, target) ==
  IF releaseReverts(item, memo, furn, target)
  THEN updateFurniturePosition(furn, item.id, memo)
  ELSE furn

\* variant: playPlaceSound() on both branches
releaseSoundAlways(item, memo, furn, target) == TRUE

\* playPlaceSound() is called on the branch that does not revert
releaseSound(item, memo, furn, target) == ~releaseReverts(item, memo, furn, target)

\* the handler's call with active = false: pointer-up or pointer-cancel.
\* In detail mode the window listener of DetailEditMode runs in the same
\* dispatch; both leave isDragging false.
DragEnd(i) ==
  /\ i \in IdsOf(furniture)
  /\ i \in DOMAIN session
  /\ session[i].active
  /\ LET item == Find(furniture, i)
         memo == session[i].startPos
         furn == releasedFurniture(item, memo, furniture, detailModeTarget)
         sess == [session EXCEPT ![i] = IdleSession]
     IN /\ furniture' = furn
        /\ session' = sessionsAfter(sess, furn, scannedItems, detailModeTarget)
        /\ orphanPointers' = orphansAfter(sess, furn, scannedItems, detailModeTarget)
        /\ lastEvent' = Ev("release", i, memo,
                           checkCollision(item, item.position[1], item.position[2],
                                          item.position[3], furniture, detailModeTarget),
                           releaseSound(item, memo, furniture, detailModeTarget), FALSE)
  /\ isDragging' = FALSE
  /\ UNCHANGED <<scannedItems, selectedId, selectedType, detailModeTarget,
                 undoStack, canUndo, storeRest, nextId, hist>>

\* handleClick: select, unless this component is dragging
ClickFurniture(i) ==
  /\ i \in mountedFurniture(furniture, detailModeTarget)
  /\ ~session[i].active
  /\ selectedId' = i
  /\ selectedType' = "furniture"
  /\ lastEvent' = Other(FALSE)
  /\ UNCHANGED <<furniture, scannedItems, isDragging, detailModeTarget, undoStack,
                 canUndo, storeRest, nextId, session, orphanPointers, hist>>

\* a click on the floor (or, in detail mode, on the host): setSelectedId(null)
ClickBackground ==
  /\ selectedId # Null
  /\ selectedId' = Null
  /\ selectedType' = "null"
  /\ lastEvent' = Other(FALSE)
  /\ UNCHANGED <<furniture, scannedItems, isDragging, detailModeTarget, undoStack,
                 canUndo, storeRest, nextId, session, orphanPointers, hist>>


\* ------------------------------------------------------------ ScannedModel
\* the dimensions of the makerspace model being placed, mm
ScannedDimensions == [width |-> 400, height |-> 400, depth |-> 400]

\* the floor's onClick with a makerspace item selected for placement
AddScannedItem(hit) ==
  /\ detailModeTarget = Null
  /\ scannedItems' = Append(scannedItems,
       [id |-> nextId, position |-> <<Mm(hit[1]), 0, Mm(hit[2])>>, rotation |-> 0,
        dimensions |-> ScannedDimensions])
  /\ session' = sessionsAfter(session, furniture, scannedItems', detailModeTarget)
  /\ nextId' = nextId + 1
  /\ lastEvent' = Other(FALSE)
  /\ UNCHANGED <<furniture, selectedId, selectedType, isDragging, detailModeTarget,
                 undoStack, canUndo, storeRest, orphanPointers, hist>>

\* ScannedModel's snapToGrid: the cell is gridSize
scannedSnap(grid, v) == MathRound(v, Mm(grid)) * Mm(grid)

\* ScannedModel's clampPosition: no rotation
scannedClamp(item, room, x, z) ==
  LET halfWidth == Mm(item.dimensions.width) \div 2
      halfDepth == Mm(item.dimensions.depth) \div 2
      roomHalfWidth == Mm(room.width) \div 2
      roomHalfLength == Mm(room.length) \div 2
  IN <<Max(-roomHalfWidth + halfWidth, Min(roomHalfWidth - halfWidth, x)),
       Max(-roomHalfLength + halfDepth, Min(roomHalfLength - halfDepth, z))>>

\* ScannedModel's handler with first = true
ScannedFirst(s) ==
  /\ s \in mountedScanned(scannedItems, detailModeTarget)
  /\ ~session[s].active
  /\ session' = [session EXCEPT ![s] = [active |-> TRUE, startPos |-> NoPos]]
  /\ isDragging' = TRUE
  /\ selectedId' = s
  /\ selectedType' = "scanned"
  /\ lastEvent' = Other(FALSE)
  /\ UNCHANGED <<furniture, scannedItems, detailModeTarget, undoStack, canUndo,
                 storeRest, nextId, orphanPointers, hist>>

\* ScannedModel's handler on a pointer-move
ScannedMove(s, hit) ==
  /\ s \in IdsOf(scannedItems)
  /\ s \in DOMAIN session
  /\ session[s].active
  /\ LET item == Find(scannedItems, s)
         xz == scannedClamp(item, roomDimensions, scannedSnap(gridSize, Mm(hit[1])),
                            scannedSnap(gridSize, Mm(hit[2])))
     IN scannedItems' = updateScannedItemPosition(scannedItems, s, <<xz[1], 0, xz[2]>>)
  /\ lastEvent' = Other(FALSE)
  /\ UNCHANGED <<furniture, selectedId, selectedType, isDragging, detailModeTarget,
                 undoStack, canUndo, storeRest, nextId, session, orphanPointers, hist>>

\* ScannedModel's handler with active = false
ScannedEnd(s) ==
  /\ s \in IdsOf(scannedItems)
  /\ s \in DOMAIN session
  /\ session[s].active
  /\ session' = [session EXCEPT ![s] = IdleSession]
  /\ isDragging' = FALSE
  /\ lastEvent' = Other(FALSE)
  /\ UNCHANGED <<furniture, scannedItems, selectedId, selectedType, detailModeTarget,
                 undoStack, canUndo, storeRest, nextId, orphanPointers, hist>>

\* --------------------------------------------- window-level pointer-up
\* The release of a pointer whose component is gone: no gesture handler is
\* left to run.  DetailEditMode's window listener exists only while
\* DetailEditMode is mounted, that is while detailModeTarget is set (Home
\* renders DetailEditMode only then).
windowPointerUp(dragging, target) == IF target # Null THEN FALSE ELSE dragging

OrphanPointerUp ==
  /\ orphanPointers > 0
  /\ orphanPointers' = orphanPointers - 1
  /\ isDragging' = windowPointerUp(isDragging, detailModeTarget)
  /\ lastEvent' = Other(FALSE)
  /\ UNCHANGED <<furniture, scannedItems, selectedId, selectedType, detailModeTarget,
                 undoStack, canUndo, storeRest, nextId, session, hist>>

\* --------------------------------------------------------------- the room
\* Items are added while every item is still where and as the sidebar put
\* it: the runs explored furnish the room first and rearrange it after.
pristine ==
  \A k \in Indices(furniture) :
    furniture[k].position = <<0, 0, 0>> /\ furniture[k].rotation = 0

noPointerDown == activeSessions = {} /\ orphanPointers = 0

\* One pointer: furnish, rotate, drag and drop, in the room and on a host.
Next ==
  \/ \E type \in ModelTypes :
       Len(furniture) < MaxItems /\ pristine /\ nextId <= MaxIds
         /\ HandleAddFurniture(type)
  \/ HandleRotate(RotateStep)
  \/ HandleRotate(-RotateStep)
  \/ hist.nDetail < MaxDetailVisits /\ EditDetails
  \/ ExitDetailMode
  \/ \E i \in DOMAIN session : noPointerDown /\ DragFirst(i)
  \/ \E i \in DOMAIN session, hit \in PointerHits : DragMove(i, hit)
  \/ \E i \in DOMAIN session : DragEnd(i)
  \/ \E i \in DOMAIN session : ClickFurniture(i)
  \/ OrphanPointerUp

Spec == Init /\ [][Next]_vars

\* Several pointers (multi-touch), scanned models, and items removed with the
\* Delete key while they are dragged.
PointerTypes == {"desk"}

NextPointers ==
  \/ \E type \in PointerTypes :
       Len(furniture) < MaxItems /\ pristine /\ nextId <= MaxIds
         /\ HandleAddFurniture(type)
  \/ \E hit \in PointerHits :
       Len(scannedItems) < MaxScanned /\ nextId <= MaxIds /\ AddScannedItem(hit)
  \/ KeyDelete(selectedId)
  \/ hist.nDetail < MaxDetailVisits /\ EditDetails
  \/ ExitDetailMode
  \/ \E i \in DOMAIN session : pointersDown < MaxPointers /\ DragFirst(i)
  \/ \E i \in DOMAIN session, hit \in PointerHits : DragMove(i, hit)
  \/ \E i \in DOMAIN session : DragEnd(i)
  \/ \E s \in DOMAIN session : pointersDown < MaxPointers /\ ScannedFirst(s)
  \/ \E s \in DOMAIN session, hit \in PointerHits : ScannedMove(s, hit)
  \/ \E s \in DOMAIN session : ScannedEnd(s)
  \/ OrphanPointerUp

SpecPointers == Init /\ [][NextPointers]_vars

\* ------------------------------------------------------ the undo scenario
\* N mutating actions of the sidebar, each after its saveForUndo(), then
\* undo() called N times and once more.
UndoTypes == {"book"}

DoAdd(type) ==
  /\ hist.phase = "do"
  /\ hist.nSaved < MaxOps
  /\ Len(furniture) < MaxUndoItems
  /\ AddFurnitureStep(type)
  /\ hist' = [hist EXCEPT !.nSaved = @ + 1]

DoSelect(i) == hist.phase = "do" /\ selectedId # i /\ ClickFurniture(i)

DoDelete ==
  /\ hist.phase = "do"
  /\ hist.nSaved < MaxOps
  /\ DeleteButtonStep
  /\ hist' = [hist EXCEPT !.nSaved = @ + 1]

DoUndo ==
  /\ hist.nSaved >= 1
  /\ hist.nUndone <= hist.nSaved
  /\ UndoStep
  /\ hist' = [hist EXCEPT !.phase = "undo", !.nUndone = @ + 1]

NextUndo ==
  \/ \E type \in UndoTypes : DoAdd(type)
  \/ \E i \in DOMAIN session : DoSelect(i)
  \/ DoDelete
  \/ DoUndo

SpecUndo == Init /\ [][NextUndo]_vars

\* ------------------------------------------- edits without a pointer drag
updateFurnitureDimensions(furn, id, dimension, value) ==
  [k \in Indices(furn) |->
     IF furn[k].id = id
     THEN [furn[k] EXCEPT !.dimensions = [@ EXCEPT ![dimension] = value]]
     ELSE furn[k]]

\* variant: the merged object is written over the item's type
updateFurnitureColorAsType(furn, id, color) ==
  [k \in Indices(furn) |->
     IF furn[k].id = id THEN [furn[k] EXCEPT !.type = color] ELSE furn[k]]

updateFurnitureColor(furn, id, color) ==
  [k \in Indices(furn) |->
     IF furn[k].id = id THEN [furn[k] EXCEPT !.color = color] ELSE furn[k]]

updateFurnitureOrientation(furn, id, orientation) ==
  [k \in Indices(furn) |->
     IF furn[k].id = id THEN [furn[k] EXCEPT !.orientation = orientation] ELSE furn[k]]

\* values of the Custom Size sliders (mm) and of the colour palette
DimensionNames == {"width"}
DimensionValues == {1000}
PaletteColors == {"#2a2a2a"}
Orientations == {"flat"}

\* handleDimensionChange: no saveForUndo()
HandleDimensionChange(dimension, value) ==
  /\ detailModeTarget = Null
  /\ hasSelectedFurniture
  /\ SetFurniture(updateFurnitureDimensions(furniture, selectedId, dimension, value))
  /\ lastEvent' = Other(FALSE)
  /\ UNCHANGED <<scannedItems, selectedId, selectedType, isDragging,
                 detailModeTarget, undoStack, canUndo, storeRest, nextId, hist>>

\* handleColorChange: no saveForUndo()
HandleColorChange(color) ==
  /\ detailModeTarget = Null
  /\ hasSelectedFurniture
  /\ SetFurniture(updateFurnitureColor(furniture, selectedId, color))
  /\ lastEvent' = Other(FALSE)
  /\ UNCHANGED <<scannedItems, selectedId, selectedType, isDragging,
                 detailModeTarget, undoStack, canUndo, storeRest, nextId, hist>>

\* the detail panel's orientation buttons, shown for a selected book
HandleOrientation(orientation) ==
  /\ detailModeTarget # Null /\ detailModeTarget \in IdsOf(furniture)
  /\ selectedId \in IdsOf(furniture)
  /\ isBookType(Find(furniture, selectedId).type)
  /\ SetFurniture(updateFurnitureOrientation(furniture, selectedId, orientation))
  /\ lastEvent' = Other(FALSE)
  /\ UNCHANGED <<scannedItems, selectedId, selectedType, isDragging,
                 detailModeTarget, undoStack, canUndo, storeRest, nextId, hist>>

\* ----------------------------------------------- DetailEditMode: handleDrop
isShelfType(type) == type \in {"bookshelf", "tall_bookshelf"}

\* the surfaces of the host, in position units, in the order they are pushed
surfaces(target) ==
  <<target.position[2] + Mm(ShelfOffset)>>
    \o (IF isShelfType(target.type)
        THEN [i \in 1 .. ShelfCount |->
                target.position[2] + (i * Mm(target.dimensions.height)) \div ShelfCount]
        ELSE <<target.position[2] + Mm(target.dimensions.height)>>)

\* variant: the last of equally close surfaces (dist <= bestDist)
bestSurfaceLast(target, clickedY) ==
  LET s == surfaces(target)
      best == CHOOSE k \in Indices(s) :
                /\ \A j \in Indices(s) : Abs(clickedY - s[k]) <= Abs(clickedY - s[j])
                /\ \A j \in (k + 1) .. Len(s) : Abs(clickedY - s[j]) > Abs(clickedY - s[k])
  IN s[best]

\* the surface closest to clickedY; the first of equally close ones
bestSurface(target, clickedY) ==
  LET s == surfaces(target)
      best == CHOOSE k \in Indices(s) :
                /\ \A j \in Indices(s) : Abs(clickedY - s[k]) <= Abs(clickedY - s[j])
                /\ \A j \in 1 .. (k - 1) : Abs(clickedY - s[j]) > Abs(clickedY - s[k])
  IN s[best]

\* the clamp of the drop point to the host's nominal width and depth
dropPosition(target, hit, clickedY) ==
  LET halfW == Mm(target.dimensions.width) \div 2 - Mm(DropMargin)
      halfD == Mm(target.dimensions.depth) \div 2 - Mm(DropMargin)
  IN <<Max(target.position[1] - halfW, Min(target.position[1] + halfW, Mm(hit[1]))),
       bestSurface(target, clickedY),
       Max(target.position[3] - halfD, Min(target.position[3] + halfD, Mm(hit[2])))>>

\* heights (mm) the pointer aims at when an item is dropped on the host
DropHeights == {700}

\* handleDrop: addFurniture at the drop point; no saveForUndo()
HandleDrop(type, hit, clickedY) ==
  /\ detailModeTarget # Null /\ detailModeTarget \in IdsOf(furniture)
  /\ \E variant \in SizeVariants : SetFurniture(addFurniture(furniture,
       [id |-> Null, type |-> type,
        position |-> dropPosition(Find(furniture, detailModeTarget), hit, Mm(clickedY)),
        rotation |-> 0,
        dimensions |-> FURNITURE_CATALOG(type).dimensions,
        color |-> FURNITURE_CATALOG(type).defaultColor, orientation |-> "none",
        sizeVariant |-> 0],
       nextId, variant))
  /\ nextId' = nextId + 1
  /\ lastEvent' = Ev("drop", nextId, <<Mm(hit[1]), Mm(clickedY), Mm(hit[2])>>,
                     FALSE, FALSE, FALSE)
  /\ UNCHANGED <<scannedItems, selectedId, selectedType, isDragging,
                 detailModeTarget, undoStack, canUndo, storeRest, hist>>

\* --------------------------------------------- DetailEditMode: alignBooks
\* getBooksOnFurniture: the indices of the books on or near the host
getBooksOnFurniture(furn, target) ==
  {k \in Indices(furn) :
     /\ isBookType(furn[k].type)
     /\ Abs(furn[k].position[1] - target.position[1])
          < Mm(Max(target.dimensions.width, target.dimensions.depth)) \div 2
              + Mm(BooksMargin)
     /\ Abs(furn[k].position[3] - target.position[3])
          < Mm(Max(target.dimensions.width, target.dimensions.depth)) \div 2
              + Mm(BooksMargin)}

\* variant: the books are also put on the host's base
alignedFurnitureLevelled(furn, target) ==
  [k \in Indices(furn) |->
     IF k \in getBooksOnFurniture(furn, target)
     THEN [furn[k] EXCEPT !.position = <<@[1], target.position[2], target.position[3]>>]
     ELSE furn[k]]

alignedFurniture(furn, target) ==
  [k \in Indices(furn) |->
     IF k \in getBooksOnFurniture(furn, target)
     THEN [furn[k] EXCEPT !.position = <<@[1], @[2], target.position[3]>>]
     ELSE furn[k]]

\* alignBooks: saveForUndo(), then every book on the host to the host's z;
\* the tool is shown for a bookshelf host
AlignBooks ==
  /\ detailModeTarget # Null /\ detailModeTarget \in IdsOf(furniture)
  /\ isShelfType(Find(furniture, detailModeTarget).type)
  /\ getBooksOnFurniture(furniture, Find(furniture, detailModeTarget)) # {}
  /\ undoStack' = saveForUndo(undoStack, furniture)
  /\ canUndo' = TRUE
  /\ SetFurniture(alignedFurniture(furniture, Find(furniture, detailModeTarget)))
  /\ lastEvent' = Ev("align", Null, NoPos, FALSE, FALSE, TRUE)
  /\ UNCHANGED <<scannedItems, selectedId, selectedType, isDragging,
                 detailModeTarget, storeRest, nextId, hist>>

\* ------------------------------------------------- exportRoom / importRoom
TopLevelFields == {"roomDimensions", "furniture", "scannedItems", "gridSize"}

UndefinedRoom == [width |-> 0, length |-> 0, height |-> 0]

\* exportRoom: JSON.stringify of the four fields; a field whose value is
\* undefined is left out of the text
exportRoom(room, furn, scanned, grid, undefs) ==
  [json |-> TRUE, fields |-> TopLevelFields \ undefs,
   roomDimensions |-> IF "roomDimensions" \in undefs THEN UndefinedRoom ELSE room,
   furniture |-> IF "furniture" \in undefs THEN <<>> ELSE JsonClone(furn),
   scannedItems |-> scanned, gridSize |-> grid]

\* handleExport
ExportRoom ==
  /\ detailModeTarget = Null
  /\ exported' = exportRoom(roomDimensions, furniture, scannedItems, gridSize,
                            undefinedFields)
  /\ lastEvent' = Other(FALSE)
  /\ UNCHANGED <<furniture, scannedItems, selectedId, selectedType, isDragging,
                 detailModeTarget, undoStack, canUndo, gridSize, roomDimensions,
                 nextId, session, orphanPointers, hist, undefinedFields,
                 importResult, probe, makerspace>>

\* a text like doc, its object lacking one top-level key
withoutField(doc, field) ==
  [doc EXCEPT !.fields = @ \ {field},
              !.furniture = IF field = "furniture" THEN <<>> ELSE @,
              !.roomDimensions = IF field = "roomDimensions" THEN UndefinedRoom ELSE @]

\* the files offered to handleImport: the last export, the same with a
\* required field removed, and a text that is not JSON
ImportDocs ==
  {exported, withoutField(exported, "furniture"),
   withoutField(exported, "roomDimensions"), NotJson}

\* variant: every text is taken as parsed
importParsesAlways(doc) == TRUE

\* JSON.parse(json) returns; otherwise the catch returns false
importParses(doc) == doc.json

\* variant: the items are read from a key the export does not write
importedFurnitureEmpty(doc) == <<>>

\* data.furniture
importedFurniture(doc) == IF "furniture" \in doc.fields THEN doc.furniture ELSE <<>>

\* data.scannedItems || []
importedScanned(doc) == IF "scannedItems" \in doc.fields THEN doc.scannedItems ELSE <<>>

\* data.gridSize || 0.25
importedGridSize(doc) ==
  IF "gridSize" \in doc.fields /\ doc.gridSize # 0 THEN doc.gridSize ELSE ImportGridSize

\* the required fields the parsed object lacks: set() stores undefined
importedUndefined(doc) == {"roomDimensions", "furniture"} \ doc.fields

\* importRoom(json), called by handleImport
ImportRoom(doc) ==
  /\ detailModeTarget = Null
  /\ IF importParses(doc)
     THEN /\ roomDimensions' = IF "roomDimensions" \in doc.fields
                               THEN doc.roomDimensions ELSE UndefinedRoom
          /\ furniture' = importedFurniture(doc)
          /\ scannedItems' = importedScanned(doc)
          /\ gridSize' = importedGridSize(doc)
          /\ undefinedFields' = importedUndefined(doc)
          /\ selectedId' = Null
          /\ selectedType' = "null"
          /\ session' = sessionsAfter(session, importedFurniture(doc),
                                      importedScanned(doc), detailModeTarget)
          /\ orphanPointers' = orphansAfter(session, importedFurniture(doc),
                                            importedScanned(doc), detailModeTarget)
          /\ importResult' = "true"
     ELSE /\ importResult' = "false"
          /\ UNCHANGED <<roomDimensions, furniture, scannedItems, gridSize,
                         undefinedFields, selectedId, selectedType, session,
                         orphanPointers>>
  /\ lastEvent' = Ev("import", Null, NoPos, FALSE, FALSE, FALSE)
  /\ UNCHANGED <<isDragging, detailModeTarget, undoStack, canUndo, nextId, hist,
                 exported, probe, makerspace>>

\* variant: clearRoom() also forgets the snapshots
ClearRoomForgets ==
  /\ detailModeTarget = Null
  /\ furniture' = <<>>
  /\ scannedItems' = <<>>
  /\ selectedId' = Null
  /\ selectedType' = "null"
  /\ undoStack' = <<>>
  /\ canUndo' = FALSE
  /\ session' = sessionsAfter(session, <<>>, <<>>, detailModeTarget)
  /\ orphanPointers' = orphansAfter(session, <<>>, <<>>, detailModeTarget)
  /\ lastEvent' = Ev("clear", Null, NoPos, FALSE, FALSE, FALSE)
  /\ UNCHANGED <<isDragging, detailModeTarget, storeRest, nextId, hist>>

\* the Clear Room button, confirmed: clearRoom()
ClearRoom ==
  /\ detailModeTarget = Null
  /\ furniture' = <<>>
  /\ scannedItems' = <<>>
  /\ selectedId' = Null
  /\ selectedType' = "null"
  /\ session' = sessionsAfter(session, <<>>, <<>>, detailModeTarget)
  /\ orphanPointers' = orphansAfter(session, <<>>, <<>>, detailModeTarget)
  /\ lastEvent' = Ev("clear", Null, NoPos, FALSE, FALSE, FALSE)
  /\ UNCHANGED <<isDragging, detailModeTarget, undoStack, canUndo, storeRest,
                 nextId, hist>>

\* ----------------------------------------------------- editing the room
\* A bookshelf and books: every way the sidebar, the detail panel, the
\* keyboard and one pointer change the furniture.
EditTypes == {"bookshelf", "book"}
DropTypes == {"book"}
EditHits == {<<2612, 1513>>}

\* how many items carry a rotation, a dimension, a colour or an orientation
\* other than the one they were added with
edits ==
  Cardinality({k \in Indices(furniture) :
     \/ furniture[k].rotation # 0
     \/ furniture[k].dimensions # FURNITURE_CATALOG(furniture[k].type).dimensions
     \/ furniture[k].color # FURNITURE_CATALOG(furniture[k].type).defaultColor
     \/ furniture[k].orientation \in Orientations})

editRoom == edits < MaxEdits

stackRoom == Len(undoStack) < MaxStackDepth

NextEdit ==
  \/ \E type \in EditTypes :
       Len(furniture) < MaxItems /\ pristine /\ nextId <= MaxIds /\ stackRoom
         /\ HandleAddFurniture(type)
  \/ \E i \in DOMAIN session : noPointerDown /\ ClickFurniture(i)
  \/ noPointerDown /\ stackRoom /\ DeleteButton
  \/ noPointerDown /\ KeyDelete(selectedId)
  \/ noPointerDown /\ editRoom /\ HandleRotate(RotateStep)
  \/ \E dimension \in DimensionNames, value \in DimensionValues :
       noPointerDown /\ editRoom /\ HandleDimensionChange(dimension, value)
  \/ \E color \in PaletteColors :
       noPointerDown /\ editRoom /\ HandleColorChange(color)
  \/ hist.nDetail < MaxDetailVisits /\ noPointerDown /\ EditDetails
  \/ noPointerDown /\ ExitDetailMode
  \/ \E type \in DropTypes, hit \in EditHits, clickedY \in DropHeights :
       noPointerDown /\ Len(furniture) < MaxItems /\ nextId <= MaxIds
         /\ HandleDrop(type, hit, clickedY)
  \/ \E orientation \in Orientations :
       noPointerDown /\ editRoom /\ HandleOrientation(orientation)
  \/ noPointerDown /\ stackRoom /\ AlignBooks
  \/ noPointerDown /\ UndoKey
  \/ \E i \in DOMAIN session : noPointerDown /\ DragFirst(i)
  \/ \E i \in DOMAIN session, hit \in EditHits : DragMove(i, hit)
  \/ \E i \in DOMAIN session : DragEnd(i)

SpecEdit == Init /\ [][NextEdit]_vars

\* ------------------------------------------------------ export and import
\* Furnish and rearrange, export, add and delete, import.  With a required
\* field undefined in the store no component renders, and nothing more
\* happens.
rendered == undefinedFields = {}

notExported == exported = NotJson

NextImport ==
  \/ \E type \in ModelTypes :
       rendered /\ Len(furniture) < MaxItems /\ pristine /\ nextId <= MaxIds
         /\ stackRoom /\ HandleAddFurniture(type)
  \/ \E i \in DOMAIN session : rendered /\ noPointerDown /\ ClickFurniture(i)
  \/ rendered /\ noPointerDown /\ stackRoom /\ DeleteButton
  \/ \E i \in DOMAIN session :
       rendered /\ notExported /\ noPointerDown /\ DragFirst(i)
  \/ \E i \in DOMAIN session, hit \in PointerHits : rendered /\ DragMove(i, hit)
  \/ \E i \in DOMAIN session : rendered /\ DragEnd(i)
  \/ rendered /\ noPointerDown /\ ExportRoom
  \/ \E doc \in ImportDocs : rendered /\ noPointerDown /\ ImportRoom(doc)
  \/ rendered /\ noPointerDown /\ ClearRoom
  \/ rendered /\ noPointerDown /\ UndoKey

SpecImport == Init /\ [][NextImport]_vars

\* ------------------------------------------------------------ snapToGrid
\* snapToGrid applied to a coordinate, and again to what it returned.
\* Coordinates are whole millimetres plus a fraction of one, on both sides
\* of the origin, among them the half-way points of both cells.
GridSizes == {100, 250, 500, 1000}
SnapMillimetres == {-1513, -13, -3, 0, 2, 7, 12, 2612}
SnapFractions == {0, PosScale \div 2 - 1, PosScale \div 2}

ProbeInputs ==
  {[type |-> type, grid |-> grid, v |-> Mm(mm) + f, snapped |-> Mm(mm) + f,
    calls |-> 0] :
     type \in ModelTypes, grid \in GridSizes, mm \in SnapMillimetres,
     f \in SnapFractions}

InitSnap == InitStore /\ probe \in ProbeInputs /\ makerspace = LibraryIdle

Snap ==
  /\ probe.calls < MaxSnaps
  /\ probe' = [probe EXCEPT !.snapped = snapToGrid(probe.type, probe.grid, @),
                            !.calls = @ + 1]
  /\ UNCHANGED <<furniture, scannedItems, selectedId, selectedType, isDragging,
                 detailModeTarget, undoStack, canUndo, gridSize, roomDimensions,
                 nextId, session, orphanPointers, lastEvent, hist,
                 undefinedFields, exported, importResult, makerspace>>

NextSnap == Snap

SpecSnap == InitSnap /\ [][NextSnap]_vars

\* ------------------------------------- DetailEditMode: arrangement tools
\* a set of indices as the sequence filter() and forEach() walk it
inOrder(S) ==
  [n \in 1 .. Cardinality(S) |->
     CHOOSE k \in S : Cardinality({j \in S : j < k}) = n - 1]

\* [...books].sort((a, b) => a.position[0] - b.position[0]); the sort is
\* stable
sortedByX(furn, S) ==
  [n \in 1 .. Cardinality(S) |->
     CHOOSE k \in S :
       Cardinality({j \in S : \/ furn[j].position[1] < furn[k].position[1]
                              \/ /\ furn[j].position[1] = furn[k].position[1]
                                 /\ j < k}) = n - 1]

rankIn(order, k) == CHOOSE n \in DOMAIN order : order[n] = k

\* book.sizeVariant || 1, in per cent
variantOf(book) == IF book.sizeVariant = 0 THEN PerCent ELSE book.sizeVariant

\* book.dimensions.depth * (book.sizeVariant || 1): the spine's thickness
spine(book) == (Mm(book.dimensions.depth) * variantOf(book)) \div PerCent

\* centerBook.dimensions.width * (centerBook.sizeVariant || 1)
faceWidth(book) == (Mm(book.dimensions.width) * variantOf(book)) \div PerCent

baseY(target) == target.position[2] + Mm(BaseOffset)

\* variant: every book takes the room of the gap only
rowCursorPitch(furn, order, n) == (n - 1) * Mm(RowGap)

\* arrangeRow: currentX - startX when the n-th book is placed
RECURSIVE rowCursor(_, _, _)
rowCursor(furn, order, n) ==
  IF n = 1 THEN 0
  ELSE rowCursor(furn, order, n - 1) + spine(furn[order[n - 1]]) + Mm(RowGap)

\* variant: the row starts where its first book stands
rowFurnitureFromFirst(furn, target) ==
  LET books == getBooksOnFurniture(furn, target)
      order == inOrder(books)
      startX == furn[order[1]].position[1]
  IN [k \in Indices(furn) |->
        IF k \in books
        THEN [furn[k] EXCEPT
                !.position = <<startX + rowCursor(furn, order, rankIn(order, k))
                                 + spine(furn[k]) \div 2,
                               baseY(target), target.position[3]>>,
                !.orientation = "upright"]
        ELSE furn[k]]

rowFurniture(furn, target) ==
  LET books == getBooksOnFurniture(furn, target)
      order == inOrder(books)
      startX == target.position[1] - Mm(target.dimensions.width) \div 2
                  + Mm(RowMargin)
  IN [k \in Indices(furn) |->
        IF k \in books
        THEN [furn[k] EXCEPT
                !.position = <<startX + rowCursor(furn, order, rankIn(order, k))
                                 + spine(furn[k]) \div 2,
                               baseY(target), target.position[3]>>,
                !.orientation = "upright"]
        ELSE furn[k]]

\* arrangeRow: saveForUndo(), then the books in a row from the left edge
ArrangeRow ==
  /\ detailModeTarget # Null /\ detailModeTarget \in IdsOf(furniture)
  /\ isShelfType(Find(furniture, detailModeTarget).type)
  /\ getBooksOnFurniture(furniture, Find(furniture, detailModeTarget)) # {}
  /\ undoStack' = saveForUndo(undoStack, furniture)
  /\ canUndo' = TRUE
  /\ SetFurniture(rowFurniture(furniture, Find(furniture, detailModeTarget)))
  /\ lastEvent' = Ev("row", Null, NoPos, FALSE, FALSE, TRUE)
  /\ UNCHANGED <<scannedItems, selectedId, selectedType, isDragging,
                 detailModeTarget, storeRest, nextId, hist>>

\* basicBooks: the books and manga among the books on the host
basicBooks(furn, target) ==
  inOrder({k \in getBooksOnFurniture(furn, target) :
             furn[k].type \in {"book", "manga"}})

\* variant: no slice(0, 11)
shrineBooksAll(furn, target) == basicBooks(furn, target)

\* basicBooks.slice(0, 11)
shrineBooks(furn, target) ==
  SubSeq(basicBooks(furn, target), 1,
         Min(Len(basicBooks(furn, target)), ShrineLimit))

\* arrangeShrine: how far leftX or rightX has moved outward when the n-th
\* book of the shrine is placed (the 2nd, 4th, ... go left, the 3rd, 5th,
\* ... go right)
RECURSIVE sideCursor(_, _, _)
sideCursor(furn, order, n) ==
  IF n <= 3 THEN 0
  ELSE sideCursor(furn, order, n - 2) + spine(furn[order[n - 2]]) + Mm(ShrineGap)

shrinePosition(furn, target, order, n) ==
  LET halfCenterWidth == faceWidth(furn[order[1]]) \div 2
      out == halfCenterWidth + Mm(ShrineInset) + sideCursor(furn, order, n)
               + spine(furn[order[n]]) \div 2
  IN IF n = 1
     THEN <<target.position[1], baseY(target) + Mm(ShrineRaise),
            target.position[3] + Mm(ShrineForward)>>
     ELSE IF n % 2 = 0
     THEN <<target.position[1] - out, baseY(target), target.position[3]>>
     ELSE <<target.position[1] + out, baseY(target), target.position[3]>>

shrineFurniture(furn, target) ==
  LET order == shrineBooks(furn, target)
      books == {order[n] : n \in DOMAIN order}
  IN [k \in Indices(furn) |->
        IF k \in books
        THEN [furn[k] EXCEPT
                !.position = shrinePosition(furn, target, order, rankIn(order, k)),
                !.orientation = IF rankIn(order, k) = 1 THEN "faceout" ELSE "upright"]
        ELSE furn[k]]

\* arrangeShrine: saveForUndo(), then the first book face out in the
\* centre and the others flanking it
ArrangeShrine ==
  /\ detailModeTarget # Null /\ detailModeTarget \in IdsOf(furniture)
  /\ isShelfType(Find(furniture, detailModeTarget).type)
  /\ Len(shrineBooks(furniture, Find(furniture, detailModeTarget))) >= 1
  /\ undoStack' = saveForUndo(undoStack, furniture)
  /\ canUndo' = TRUE
  /\ SetFurniture(shrineFurniture(furniture, Find(furniture, detailModeTarget)))
  /\ lastEvent' = Ev("shrine", Null, NoPos, FALSE, FALSE, TRUE)
  /\ UNCHANGED <<scannedItems, selectedId, selectedType, isDragging,
                 detailModeTarget, storeRest, nextId, hist>>

\* (Math.random() - 0.5) * 0.02, in mm: the draws of the odd and of the
\* even books of a pile
StackOffsets == {-10, 0, 7}

\* arrangeStack: currentY - baseY when the n-th book is placed
RECURSIVE stackCursor(_, _, _)
stackCursor(furn, order, n) ==
  IF n = 1 THEN 0
  ELSE stackCursor(furn, order, n - 1) + spine(furn[order[n - 1]]) + Mm(StackGap)

\* variant: the pile turns each book by a quarter
stackedFurnitureTurned(furn, target, odd, even) ==
  [k \in Indices(furn) |->
     IF k \in getBooksOnFurniture(furn, target)
     THEN [furn[k] EXCEPT !.rotation = (@ + 2 * RotateStep) % 360,
                          !.orientation = "flat"]
     ELSE furn[k]]

stackedFurniture(furn, target, odd, even) ==
  LET books == getBooksOnFurniture(furn, target)
      order == inOrder(books)
  IN [k \in Indices(furn) |->
        IF k \in books
        THEN LET n == rankIn(order, k)
                 randomOffset == IF n % 2 = 1 THEN Mm(odd) ELSE Mm(even)
             IN [furn[k] EXCEPT
                   !.position = <<target.position[1] + randomOffset,
                                  baseY(target) + stackCursor(furn, order, n)
                                    + spine(furn[k]) \div 2,
                                  target.position[3] + randomOffset>>,
                   !.orientation = "flat"]
        ELSE furn[k]]

\* arrangeStack: saveForUndo(), then the books in a pile on the centre
ArrangeStack(odd, even) ==
  /\ detailModeTarget # Null /\ detailModeTarget \in IdsOf(furniture)
  /\ isShelfType(Find(furniture, detailModeTarget).type)
  /\ getBooksOnFurniture(furniture, Find(furniture, detailModeTarget)) # {}
  /\ undoStack' = saveForUndo(undoStack, furniture)
  /\ canUndo' = TRUE
  /\ SetFurniture(stackedFurniture(furniture, Find(furniture, detailModeTarget),
                                   odd, even))
  /\ lastEvent' = Ev("stack", Null, NoPos, FALSE, FALSE, TRUE)
  /\ UNCHANGED <<scannedItems, selectedId, selectedType, isDragging,
                 detailModeTarget, storeRest, nextId, hist>>

\* variant: the books are taken in the order of the collection
spaceOrderUnsorted(furn, S) == inOrder(S)

\* sortedBooks
spaceOrder(furn, S) == sortedByX(furn, S)

\* minX + i * spacing with spacing = (maxX - minX) / (n - 1), to the
\* nearest position unit
spacedX(target, n, i) ==
  LET minX == target.position[1] - Mm(target.dimensions.width) \div 2
                + Mm(SpaceMargin)
      maxX == target.position[1] + Mm(target.dimensions.width) \div 2
                - Mm(SpaceMargin)
  IN minX + MathRound(i * (maxX - minX), n - 1)

spacedFurniture(furn, target) ==
  LET books == getBooksOnFurniture(furn, target)
      order == spaceOrder(furn, books)
  IN [k \in Indices(furn) |->
        IF k \in books
        THEN [furn[k] EXCEPT
                !.position = <<spacedX(target, Cardinality(books),
                                       rankIn(order, k) - 1), @[2], @[3]>>]
        ELSE furn[k]]

\* spaceEvenly: with two books or more, saveForUndo(), then the books at
\* equal steps from the left margin to the right one
SpaceEvenly ==
  /\ detailModeTarget # Null /\ detailModeTarget \in IdsOf(furniture)
  /\ isShelfType(Find(furniture, detailModeTarget).type)
  /\ Cardinality(getBooksOnFurniture(furniture, Find(furniture, detailModeTarget)))
       >= 2
  /\ undoStack' = saveForUndo(undoStack, furniture)
  /\ canUndo' = TRUE
  /\ SetFurniture(spacedFurniture(furniture, Find(furniture, detailModeTarget)))
  /\ lastEvent' = Ev("space", Null, NoPos, FALSE, FALSE, TRUE)
  /\ UNCHANGED <<scannedItems, selectedId, selectedType, isDragging,
                 detailModeTarget, storeRest, nextId, hist>>

\* the early returns of the five tools: books.length < 1, and < 2 in
\* spaceEvenly
ArrangeKinds == {"shrine", "row", "stack", "align", "space"}

arrangeable(kind, furn, target) ==
  CASE kind = "shrine" -> Len(shrineBooks(furn, target)) >= 1
    [] kind = "space" -> Cardinality(getBooksOnFurniture(furn, target)) >= 2
    [] OTHER -> getBooksOnFurniture(furn, target) # {}

\* variant: saveForUndo() is called before the early return
ArrangeIdleSaves(kind) ==
  /\ detailModeTarget # Null /\ detailModeTarget \in IdsOf(furniture)
  /\ isShelfType(Find(furniture, detailModeTarget).type)
  /\ ~arrangeable(kind, furniture, Find(furniture, detailModeTarget))
  /\ undoStack' = saveForUndo(undoStack, furniture)
  /\ canUndo' = TRUE
  /\ lastEvent' = Ev(kind, Null, NoPos, FALSE, FALSE, FALSE)
  /\ UNCHANGED <<furniture, scannedItems, selectedId, selectedType, isDragging,
                 detailModeTarget, storeRest, nextId, session, orphanPointers,
                 hist>>

\* a tool's button pressed with too few books on the host: the tool returns
\* before saveForUndo()
ArrangeIdle(kind) ==
  /\ detailModeTarget # Null /\ detailModeTarget \in IdsOf(furniture)
  /\ isShelfType(Find(furniture, detailModeTarget).type)
  /\ ~arrangeable(kind, furniture, Find(furniture, detailModeTarget))
  /\ lastEvent' = Ev(kind, Null, NoPos, FALSE, FALSE, FALSE)
  /\ UNCHANGED <<furniture, scannedItems, selectedId, selectedType, isDragging,
                 detailModeTarget, undoStack, canUndo, storeRest, nextId,
                 session, orphanPointers, hist>>

\* ------------------------------------------- the arrangement tools at work
\* A bookshelf that was added from the sidebar and moved, opened in detail
\* mode, with books dropped on its base and on its first shelf and moved
\* along it; a book may lie on the floor out of the tools' reach, or a desk
\* may stand against the host's side.
SceneHostId == 1
SceneOrders == {"ascending", "descending"}
SceneKinds == {"books", "mixed", "stacks"}

SceneHost ==
  [id |-> SceneHostId, type |-> "bookshelf",
   position |-> <<Mm(500), 0, Mm(-500)>>, rotation |-> 0,
   dimensions |-> FURNITURE_CATALOG("bookshelf").dimensions,
   color |-> FURNITURE_CATALOG("bookshelf").defaultColor,
   orientation |-> "none", sizeVariant |-> 0]

sceneType(kind, i) ==
  IF kind = "books" THEN "book"
  ELSE IF kind = "stacks" THEN "book_stack"
  ELSE CASE i % 3 = 1 -> "book" [] i % 3 = 2 -> "manga" [] OTHER -> "book_stack"

\* the i-th book dropped on the host
SceneBook(i, order, kind) ==
  LET type == sceneType(kind, i)
      dx == IF order = "ascending" THEN 55 * i - 330 ELSE 330 - 55 * i
      y == IF i % 2 = 1 THEN surfaces(SceneHost)[1] ELSE surfaces(SceneHost)[2]
  IN [id |-> SceneHostId + i, type |-> type,
      position |-> <<SceneHost.position[1] + Mm(dx), y,
                     SceneHost.position[3] + Mm(40 * ((i % 3) - 1))>>,
      rotation |-> 0,
      dimensions |-> FURNITURE_CATALOG(type).dimensions,
      color |-> FURNITURE_CATALOG(type).defaultColor,
      orientation |-> "upright", sizeVariant |-> 85 + 15 * (i % 3)]

\* a book added from the sidebar and left on the floor beside the host
SceneFarBook(id) ==
  [id |-> id, type |-> "book",
   position |-> <<SceneHost.position[1] + Mm(900), 0, SceneHost.position[3]>>,
   rotation |-> 0,
   dimensions |-> FURNITURE_CATALOG("book").dimensions,
   color |-> FURNITURE_CATALOG("book").defaultColor,
   orientation |-> "upright", sizeVariant |-> PerCent]

\* a desk added from the sidebar and moved to the host's right side, the
\* two boxes touching
SceneDesk(id) ==
  [id |-> id, type |-> "desk",
   position |-> <<SceneHost.position[1] + Mm(950), 0, SceneHost.position[3]>>,
   rotation |-> 0,
   dimensions |-> FURNITURE_CATALOG("desk").dimensions,
   color |-> FURNITURE_CATALOG("desk").defaultColor,
   orientation |-> "none", sizeVariant |-> 0]

SceneNeighbours == {"none", "book", "desk"}

Scene(n, order, kind, beside) ==
  <<SceneHost>> \o [i \in 1 .. n |-> SceneBook(i, order, kind)]
    \o (CASE beside = "book" -> <<SceneFarBook(SceneHostId + n + 1)>>
          [] beside = "desk" -> <<SceneDesk(SceneHostId + n + 1)>>
          [] OTHER -> <<>>)

Scenes ==
  {Scene(n, order, kind, beside) :
     n \in 0 .. MaxBooks, order \in SceneOrders, kind \in SceneKinds,
     beside \in SceneNeighbours}

InitArrange ==
  /\ furniture \in Scenes
  /\ scannedItems = <<>>
  /\ selectedId = SceneHostId
  /\ selectedType = "furniture"
  /\ isDragging = FALSE
  /\ detailModeTarget = SceneHostId
  /\ undoStack = <<<<>>>>
  /\ canUndo = TRUE
  /\ gridSize = DefaultGridSize
  /\ roomDimensions = [width |-> RoomWidth, length |-> RoomLength, height |-> RoomHeight]
  /\ nextId = Len(furniture) + 1
  /\ session = [i \in mounted(furniture, <<>>, SceneHostId) |-> IdleSession]
  /\ orphanPointers = 0
  /\ lastEvent = Other(FALSE)
  /\ hist = [phase |-> "do", nSaved |-> 0, nUndone |-> 0, nDetail |-> 1]
  /\ undefinedFields = {}
  /\ exported = NotJson
  /\ importResult = "none"
  /\ probe = NoProbe
  /\ makerspace = LibraryIdle

arrangeRoom == Len(undoStack) <= MaxArrangements

NextArrange ==
  \/ arrangeRoom /\ ArrangeShrine
  \/ arrangeRoom /\ ArrangeRow
  \/ \E odd \in StackOffsets, even \in StackOffsets :
       arrangeRoom /\ ArrangeStack(odd, even)
  \/ arrangeRoom /\ AlignBooks
  \/ arrangeRoom /\ SpaceEvenly
  \/ \E kind \in ArrangeKinds : arrangeRoom /\ ArrangeIdle(kind)

SpecArrange == InitArrange /\ [][NextArrange]_vars

\* ------------------------------------------------ checkCollision at work
\* A bookshelf, a book lying above it, and a candidate (a desk or a book,
\* turned or not) whose component asks checkCollision about points beside,
\* above and behind the bookshelf: overlapping it, touching it, clear of it.
CandidateTypes == {"desk", "book"}
CandidateRotations == {0, 45, 90, 270}
ShelfRotations == {0, 90}
CheckXs == {0, 700, 925, 950}
CheckYs == {0, 1100, 1150}
CheckZs == {0, 425, 450}

CheckPoints == {<<Mm(x), Mm(y), Mm(z)>> : x \in CheckXs, y \in CheckYs, z \in CheckZs}

CollideScene(type, rotation, shelfRotation) ==
  <<[id |-> 1, type |-> "bookshelf", position |-> <<0, 0, 0>>,
     rotation |-> shelfRotation,
     dimensions |-> FURNITURE_CATALOG("bookshelf").dimensions,
     color |-> FURNITURE_CATALOG("bookshelf").defaultColor,
     orientation |-> "none", sizeVariant |-> 0],
    [id |-> 2, type |-> "book", position |-> <<0, Mm(1150), 0>>, rotation |-> 0,
     dimensions |-> FURNITURE_CATALOG("book").dimensions,
     color |-> FURNITURE_CATALOG("book").defaultColor,
     orientation |-> "upright", sizeVariant |-> PerCent],
    [id |-> 3, type |-> type, position |-> <<Mm(-1200), 0, Mm(1000)>>,
     rotation |-> rotation,
     dimensions |-> FURNITURE_CATALOG(type).dimensions,
     color |-> FURNITURE_CATALOG(type).defaultColor,
     orientation |-> IF isBookType(type) THEN "upright" ELSE "none",
     sizeVariant |-> IF isBookType(type) THEN PerCent ELSE 0]>>

CollideScenes ==
  {CollideScene(type, rotation, shelfRotation) :
     type \in CandidateTypes, rotation \in CandidateRotations,
     shelfRotation \in ShelfRotations}

InitCollide ==
  /\ furniture \in CollideScenes
  /\ scannedItems = <<>>
  /\ selectedId = Null
  /\ selectedType = "null"
  /\ isDragging = FALSE
  /\ detailModeTarget \in {Null, furniture[1].id}
  /\ undoStack = <<>>
  /\ canUndo = FALSE
  /\ gridSize = DefaultGridSize
  /\ roomDimensions = [width |-> RoomWidth, length |-> RoomLength, height |-> RoomHeight]
  /\ nextId = Len(furniture) + 1
  /\ session = [i \in mounted(furniture, <<>>, detailModeTarget) |-> IdleSession]
  /\ orphanPointers = 0
  /\ lastEvent = Other(FALSE)
  /\ hist = [phase |-> "do", nSaved |-> 0, nUndone |-> 0,
             nDetail |-> IF detailModeTarget = Null THEN 0 ELSE 1]
  /\ undefinedFields = {}
  /\ exported = NotJson
  /\ importResult = "none"
  /\ probe = NoProbe
  /\ makerspace = LibraryIdle

\* checkCollision(x, y, z) of the component of item i; the verdict is kept
\* in lastEvent
CheckCollisionAt(i, p) ==
  /\ i \in DOMAIN session
  /\ i \in IdsOf(furniture)
  /\ lastEvent' = Ev("check", i, p,
                     checkCollision(Find(furniture, i), p[1], p[2], p[3],
                                    furniture, detailModeTarget),
                     FALSE, FALSE)
  /\ UNCHANGED <<furniture, scannedItems, selectedId, selectedType, isDragging,
                 detailModeTarget, undoStack, canUndo, storeRest, nextId,
                 session, orphanPointers, hist>>

NextCollide == \E i \in DOMAIN session, p \in CheckPoints : CheckCollisionAt(i, p)

SpecCollide == InitCollide /\ [][NextCollide]_vars

\* ------------------------------------------------------ handleDrop at work
\* A host standing on the floor or raised, a bookshelf or a desk, in detail
\* mode; items are dropped on it with the pointer aiming below, between,
\* halfway between and above its surfaces.
MaxDrops == 2
DropHostTypes == {"bookshelf", "desk"}
DropHostYs == {0, 100}
DropAims == {-100, 20, 160, 260, 385, 450, 485, 700, 1050, 1500}
DropHits == {<<500, -500>>, <<2612, 1513>>}

DropScene(type, y) ==
  <<[id |-> 1, type |-> type, position |-> <<Mm(500), Mm(y), Mm(-500)>>,
     rotation |-> 0,
     dimensions |-> FURNITURE_CATALOG(type).dimensions,
     color |-> FURNITURE_CATALOG(type).defaultColor,
     orientation |-> "none", sizeVariant |-> 0]>>

DropScenes == {DropScene(type, y) : type \in DropHostTypes, y \in DropHostYs}

InitDrop ==
  /\ furniture \in DropScenes
  /\ scannedItems = <<>>
  /\ selectedId = furniture[1].id
  /\ selectedType = "furniture"
  /\ isDragging = FALSE
  /\ detailModeTarget = furniture[1].id
  /\ undoStack = <<<<>>>>
  /\ canUndo = TRUE
  /\ gridSize = DefaultGridSize
  /\ roomDimensions = [width |-> RoomWidth, length |-> RoomLength, height |-> RoomHeight]
  /\ nextId = Len(furniture) + 1
  /\ session = [i \in mounted(furniture, <<>>, detailModeTarget) |-> IdleSession]
  /\ orphanPointers = 0
  /\ lastEvent = Other(FALSE)
  /\ hist = [phase |-> "do", nSaved |-> 0, nUndone |-> 0, nDetail |-> 1]
  /\ undefinedFields = {}
  /\ exported = NotJson
  /\ importResult = "none"
  /\ probe = NoProbe
  /\ makerspace = LibraryIdle

NextDrop ==
  \E type \in DropTypes, hit \in DropHits, clickedY \in DropAims :
    Len(furniture) <= MaxDrops /\ HandleDrop(type, hit, clickedY)

SpecDrop == InitDrop /\ [][NextDrop]_vars

\* ------------------------------------------------------- makerspaceStore
\* The library of scanned models: the IndexedDB store of models (db) and the
\* zustand store's items.  loadLibrary and addItem are asynchronous; each
\* action below is what runs between two awaits.  queue holds the database
\* transactions that were created and have not finished, oldest first:
\* "getAll" and "files" of loadLibrary and "file" of addItem are readonly,
\* "save" of addItem is readwrite on both object stores.  A readwrite
\* transaction runs when every older one has finished, a readonly one when no
\* older readwrite one is pending; readonly transactions finish in any order.
MaxModels == 3

Without(queue, tx) == SelectSeq(queue, LAMBDA t : t # tx)

\* the place of a pending transaction in the queue
PlaceOf(queue, tx) == CHOOSE n \in DOMAIN queue : queue[n] = tx

readonlyRuns(queue, tx) ==
  \A n \in 1 .. (PlaceOf(queue, tx) - 1) : queue[n] # "save"

readwriteRuns(queue, tx) == queue[1] = tx

roomVars ==
  <<furniture, scannedItems, selectedId, selectedType, isDragging,
    detailModeTarget, undoStack, canUndo, gridSize, roomDimensions, nextId,
    session, orphanPointers, lastEvent, hist, undefinedFields, exported,
    importResult, probe>>

\* the ids of a list of items
ItemIds(items) == {items[k] : k \in DOMAIN items}

\* generateId(): an id no stored or listed model has
freshModel(db, items) ==
  CHOOSE n \in 1 .. (MaxModels + 1) :
    /\ n \notin db \cup ItemIds(items)
    /\ \A j \in 1 .. (n - 1) : j \in db \cup ItemIds(items)

\* loadLibrary up to `await getAllModels()`
LoadLibraryStart ==
  /\ makerspace.load.pc = "idle"
  /\ makerspace' = [makerspace EXCEPT !.isLoading = TRUE, !.error = "null",
                                      !.load = [pc |-> "getAll", models |-> <<>>],
                                      !.queue = Append(@, "getAll")]
  /\ UNCHANGED roomVars

\* getAllModels' readonly transaction reads the store, in key order; the
\* blob URLs of the models are then read from the files store.  With no
\* model stored Promise.all([]) resolves at once and the items are set.
LoadGetAll ==
  /\ makerspace.load.pc = "getAll"
  /\ readonlyRuns(makerspace.queue, "getAll")
  /\ makerspace' =
       IF makerspace.db = {}
       THEN [makerspace EXCEPT !.items = <<>>, !.isLoading = FALSE,
                               !.load = [pc |-> "done", models |-> <<>>],
                               !.queue = Without(@, "getAll")]
       ELSE [makerspace EXCEPT
               !.load = [pc |-> "urls", models |-> inOrder(makerspace.db)],
               !.queue = Append(Without(@, "getAll"), "files")]
  /\ UNCHANGED roomVars

\* the blob URLs are there: set({ items: itemsWithUrls, isLoading: false })
LoadSet ==
  /\ makerspace.load.pc = "urls"
  /\ readonlyRuns(makerspace.queue, "files")
  /\ makerspace' = [makerspace EXCEPT !.items = makerspace.load.models,
                                      !.isLoading = FALSE,
                                      !.load = [pc |-> "done", models |-> <<>>],
                                      !.queue = Without(@, "files")]
  /\ UNCHANGED roomVars

\* getAllModels or getModelBlobUrl rejects: the catch of loadLibrary
LoadFail ==
  /\ makerspace.load.pc \in {"getAll", "urls"}
  /\ readonlyRuns(makerspace.queue,
                  IF makerspace.load.pc = "getAll" THEN "getAll" ELSE "files")
  /\ makerspace' = [makerspace EXCEPT !.error = "load", !.isLoading = FALSE,
                                      !.load = [pc |-> "failed", models |-> <<>>],
                                      !.queue = Without(Without(@, "getAll"), "files")]
  /\ UNCHANGED roomVars

\* addItem up to `await saveModel(...)`
AddItemStart ==
  /\ makerspace.add.pc = "idle"
  /\ freshModel(makerspace.db, makerspace.items) <= MaxModels
  /\ makerspace' = [makerspace EXCEPT
                      !.isLoading = TRUE, !.error = "null",
                      !.add = [pc |-> "save",
                               id |-> freshModel(makerspace.db, makerspace.items)],
                      !.queue = Append(@, "save")]
  /\ UNCHANGED roomVars

\* saveModel's readwrite transaction completes
AddItemSave ==
  /\ makerspace.add.pc = "save"
  /\ readwriteRuns(makerspace.queue, "save")
  /\ makerspace' = [makerspace EXCEPT !.db = @ \cup {makerspace.add.id},
                                      !.add.pc = "url",
                                      !.queue = Append(Without(@, "save"), "file")]
  /\ UNCHANGED roomVars

\* the blob URL is there: set(state => ({ items: [newItem, ...state.items] }))
AddItemSet ==
  /\ makerspace.add.pc = "url"
  /\ makerspace' = [makerspace EXCEPT !.items = <<makerspace.add.id>> \o @,
                                      !.isLoading = FALSE,
                                      !.add.pc = "done",
                                      !.queue = Without(@, "file")]
  /\ UNCHANGED roomVars

\* saveModel or getModelBlobUrl rejects: the catch of addItem
AddItemFail ==
  /\ makerspace.add.pc \in {"save", "url"}
  /\ makerspace.add.pc = "save" => readwriteRuns(makerspace.queue, "save")
  /\ makerspace' = [makerspace EXCEPT !.error = "save", !.isLoading = FALSE,
                                      !.add.pc = "failed",
                                      !.queue = Without(Without(@, "save"), "file")]
  /\ UNCHANGED roomVars

\* the library when the calls start: models stored by earlier sessions,
\* listed (an earlier loadLibrary has run) or not yet
LibraryStarts ==
  {[LibraryIdle EXCEPT !.db = db, !.items = items] :
     db \in SUBSET (1 .. (MaxModels - 1)),
     items \in {<<>>} \cup {inOrder(S) : S \in SUBSET (1 .. (MaxModels - 1))}}

InitLibrary ==
  /\ InitStore
  /\ probe = NoProbe
  /\ makerspace \in {m \in LibraryStarts : ItemIds(m.items) \subseteq m.db}

NextLibrary ==
  \/ LoadLibraryStart
  \/ LoadGetAll
  \/ LoadSet
  \/ LoadFail
  \/ AddItemStart
  \/ AddItemSave
  \/ AddItemSet
  \/ AddItemFail

SpecLibrary == InitLibrary /\ [][NextLibrary]_vars

\* ================================================================ claims
\* C1: in every reachable state no two large-class items have effective
\* boxes (rotated footprint and height, scaled by 0.95) that strictly
\* overlap on all three axes.
C1_NoLargeOverlap ==
  \A j, k \in Indices(furniture) :
    (j < k /\ ~isSmallItem(furniture[j].type) /\ ~isSmallItem(furniture[k].type))
      => ~Overlap(BoxOf(furniture[j]), BoxOf(furniture[k]))

\* C2: a release (pointer-up or pointer-cancel) of a drag that started with
\* the item at p, at a live position that collides, leaves the item exactly
\* at p and every other item where it was.
C2_RevertOnCollision ==
  [][\A i \in DOMAIN session :
       (/\ session[i].active
        /\ lastEvent'.kind = "release" /\ lastEvent'.id = i
        /\ checkCollision(Find(furniture, i), Find(furniture, i).position[1],
                          Find(furniture, i).position[2],
                          Find(furniture, i).position[3], furniture,
                          detailModeTarget))
       => /\ Len(furniture') = Len(furniture)
          /\ \A k \in Indices(furniture) :
               /\ furniture'[k].id = furniture[k].id
               /\ furniture'[k].position =
                    IF furniture[k].id = i THEN session[i].startPos
                    ELSE furniture[k].position]_vars

\* a release has just put the item back at its start, which is free: the
\* live position it was released at was another one
C2_Witness ==
  /\ lastEvent.kind = "release"
  /\ lastEvent.collision
  /\ lastEvent.id \in IdsOf(furniture)
  /\ Len(furniture) > 1
  /\ LET item == Find(furniture, lastEvent.id)
     IN /\ item.position = lastEvent.startPos
        /\ ~checkCollision(item, item.position[1], item.position[2],
                           item.position[3], furniture, detailModeTarget)

\* C3: a release at a live position that does not collide leaves the item
\* there, leaves isDragging false and emits the placement-success signal;
\* a release that reverts the item emits no success signal.
C3_CommitOnRelease ==
  [][\A i \in DOMAIN session :
       (session[i].active /\ lastEvent'.kind = "release" /\ lastEvent'.id = i)
       => LET item == Find(furniture, i)
              collides == checkCollision(item, item.position[1], item.position[2],
                                         item.position[3], furniture,
                                         detailModeTarget)
          IN /\ ~collides => (furniture' = furniture /\ ~isDragging'
                                /\ lastEvent'.sound)
             /\ furniture' # furniture => ~lastEvent'.sound
             /\ collides => ~lastEvent'.sound]_vars

\* a release has just committed a position other than the drag's start
C3_Witness ==
  /\ lastEvent.kind = "release"
  /\ ~lastEvent.collision
  /\ lastEvent.sound
  /\ ~isDragging
  /\ lastEvent.id \in IdsOf(furniture)
  /\ Find(furniture, lastEvent.id).position # lastEvent.startPos

\* C4: after a release that commits, the item's rotated footprint lies
\* inside the active container: the room in normal mode, the host's
\* footprint in detail mode.
C4_CommittedInsideContainer ==
  (lastEvent.kind = "release" /\ lastEvent.sound /\ lastEvent.id \in IdsOf(furniture))
    => LET item == Find(furniture, lastEvent.id)
           inDetail == detailModeTarget # Null /\ detailModeTarget \in IdsOf(furniture)
           host == Find(furniture, detailModeTarget)
           centreX == IF inDetail THEN host.position[1] ELSE 0
           centreZ == IF inDetail THEN host.position[3] ELSE 0
           halfX == IF inDetail THEN effectiveHalfWidth(host)
                    ELSE Mm(roomDimensions.width) \div 2
           halfZ == IF inDetail THEN effectiveHalfDepth(host)
                    ELSE Mm(roomDimensions.length) \div 2
       IN /\ item.position[1] - effectiveHalfWidth(item) >= centreX - halfX
          /\ item.position[1] + effectiveHalfWidth(item) <= centreX + halfX
          /\ item.position[3] - effectiveHalfDepth(item) >= centreZ - halfZ
          /\ item.position[3] + effectiveHalfDepth(item) <= centreZ + halfZ

\* C5: the collision check reports no collision between two small-class
\* items, wherever they are; a release in a room of small items only never
\* sees a collision.
C5_SmallNeverCollide ==
  /\ \A j, k \in Indices(furniture) :
       (isSmallItem(furniture[j].type) /\ isSmallItem(furniture[k].type))
         => ~collidesWith(furniture[j], furniture[j].position[1],
                          furniture[j].position[2], furniture[j].position[3],
                          furniture[k], detailModeTarget)
  /\ (lastEvent.kind = "release"
        /\ \A k \in Indices(furniture) : isSmallItem(furniture[k].type))
       => ~lastEvent.collision

\* two small items whose boxes overlap, one of them just released
C5_Witness ==
  /\ lastEvent.kind = "release"
  /\ \E j, k \in Indices(furniture) :
       /\ j # k
       /\ furniture[j].id = lastEvent.id
       /\ isSmallItem(furniture[j].type) /\ isSmallItem(furniture[k].type)
       /\ Overlap(BoxOf(furniture[j]), BoxOf(furniture[k]))

\* C6: at most one drag session is active at any time.
C6_OneActiveSession == Cardinality(activeSessions) <= 1

\* C7: while any drag session is active the shared isDragging flag is true.
C7_ActiveImpliesDragging == activeSessions # {} => isDragging

\* C8: once every pointer has been released, in the room as on a host,
\* isDragging is false.
C8_ReleasedImpliesNotDragging == noPointerDown => ~isDragging

\* C9, for N up to the stack's limit: after N saves, each before one
\* mutating action, on a store with an empty stack, N undos give back the
\* furniture of before the first action and leave canUndo false; one more
\* undo changes neither.
C9_UndoRestoresWithinLimit ==
  (hist.phase = "undo" /\ hist.nSaved <= UndoLimit /\ hist.nUndone >= hist.nSaved)
    => (furniture = <<>> /\ ~canUndo /\ undoStack = <<>>)

\* C9 as stated, for every N >= 1
C9_UndoRestoresAlways ==
  (hist.phase = "undo" /\ hist.nUndone >= hist.nSaved)
    => (furniture = <<>> /\ ~canUndo /\ undoStack = <<>>)

\* N = 20 saves, all undone, and one undo more
C9_Witness ==
  /\ hist.phase = "undo"
  /\ hist.nSaved = UndoLimit
  /\ hist.nUndone = UndoLimit + 1
  /\ furniture = <<>>

\* C10: the undo stack never holds more than 20 snapshots, and a push onto
\* a stack of 20 drops the oldest and keeps the other 19, in their order,
\* below the new one.
C10_StackBounded ==
  [][/\ Len(undoStack') <= UndoLimit
     /\ (lastEvent'.saved /\ Len(undoStack) = UndoLimit)
          => /\ Len(undoStack') = UndoLimit
             /\ SubSeq(undoStack', 1, UndoLimit - 1) = Tail(undoStack)
             /\ undoStack'[UndoLimit] = furniture]_vars

\* a save has just been pushed onto a full stack
C10_Witness ==
  /\ lastEvent.saved
  /\ hist.nSaved > UndoLimit
  /\ Len(undoStack) = UndoLimit

\* C11: undo() on an empty snapshot stack changes nothing: not the
\* furniture, not the selection, not the stack, not canUndo.  (The store's
\* undo has no statement that can throw.)
C11_UndoOnEmptyIsNoOp ==
  [][(undoStack = <<>> /\ UndoStep)
       => /\ furniture' = furniture
          /\ selectedId' = selectedId /\ selectedType' = selectedType
          /\ undoStack' = undoStack /\ canUndo' = canUndo]_vars

\* undo() has been called on an empty stack, in a room that has furniture
C11_Witness ==
  /\ hist.phase = "undo"
  /\ hist.nUndone > hist.nSaved
  /\ undoStack = <<>>
  /\ furniture # <<>>

\* C12: canUndo is true exactly when the undo stack holds a snapshot.
C12_CanUndoIffStackNonEmpty == canUndo <=> undoStack # <<>>

\* snapshots were pushed and every one of them has been popped again
C12_Witness ==
  /\ hist.phase = "undo"
  /\ hist.nSaved > 1
  /\ hist.nUndone = hist.nSaved
  /\ ~canUndo
  /\ undoStack = <<>>

\* C13: every mutating operation from outside the drag handler (a
\* sidebar add, a drop in the detail panel, the Delete button, the Delete
\* or Backspace key, an arrangement, a dimension edit, a colour edit) pushes
\* a snapshot of the furniture before it changes it, so that one undo()
\* right after the operation gives back the furniture of before it.
C13_MutationsSaveFirst ==
  [][(\/ \E type \in EditTypes : HandleAddFurniture(type)
      \/ \E type \in DropTypes, hit \in EditHits, clickedY \in DropHeights :
           HandleDrop(type, hit, clickedY)
      \/ DeleteButton
      \/ KeyDelete(selectedId)
      \/ AlignBooks
      \/ \E dimension \in DimensionNames, value \in DimensionValues :
           HandleDimensionChange(dimension, value)
      \/ \E color \in PaletteColors : HandleColorChange(color))
       => /\ undoStack' # <<>>
          /\ undoFurniture(undoStack', furniture') = furniture]_vars

\* C14: each drag session has exactly one undo snapshot, taken before the
\* session's first position write, so that one undo() after a committed
\* drag puts the dragged item back at its pre-drag position.
C14_DragSavesOnce ==
  [][\A i \in DOMAIN session :
       (/\ DragEnd(i)
        /\ lastEvent'.sound
        /\ Find(furniture', i).position # session[i].startPos)
         => /\ undoStack' # <<>>
            /\ i \in IdsOf(undoFurniture(undoStack', furniture'))
            /\ Find(undoFurniture(undoStack', furniture'), i).position
                 = session[i].startPos]_vars

\* C15: a pointer-move of an active drag session writes only the dragged
\* item's x and z: its y and its other fields stay, no other item changes,
\* and no undo snapshot is pushed.  (The collision preview is state of the
\* component, outside the store.)
C15_MoveWritesOnlyXZ ==
  [][\A i \in DOMAIN session, hit \in EditHits :
       DragMove(i, hit)
         => /\ undoStack' = undoStack
            /\ canUndo' = canUndo
            /\ UNCHANGED <<scannedItems, selectedId, selectedType, isDragging,
                            detailModeTarget, gridSize, roomDimensions>>
            /\ Len(furniture') = Len(furniture)
            /\ \A k \in Indices(furniture) :
                 IF furniture[k].id = i
                 THEN furniture'[k] =
                        [furniture[k] EXCEPT !.position =
                           <<furniture'[k].position[1], furniture[k].position[2],
                             furniture'[k].position[3]>>]
                 ELSE furniture'[k] = furniture[k]]_vars

\* an item lying above the floor, next to another item, has been moved by
\* the pointer that holds it
C15_Witness ==
  /\ Len(furniture) = 2
  /\ \E i \in DOMAIN session :
       /\ session[i].active
       /\ i \in IdsOf(furniture)
       /\ Find(furniture, i).position[2] > 0
       /\ Find(furniture, i).position # session[i].startPos

\* what importRoom may write
importTargets ==
  <<roomDimensions, furniture, scannedItems, gridSize, undefinedFields,
    selectedId, selectedType, undoStack, canUndo>>

\* C16: importRoom on a JSON text whose object lacks a required top-level
\* field (roomDimensions or furniture) returns false and leaves the state
\* unchanged.
C16_ImportRejectsMissingField ==
  [][\A doc \in ImportDocs :
       (/\ ImportRoom(doc)
        /\ doc.json
        /\ ~({"roomDimensions", "furniture"} \subseteq doc.fields))
         => /\ importResult' = "false"
            /\ UNCHANGED importTargets]_vars

\* C17: importRoom on a text that is not JSON returns false and leaves the
\* state unchanged.  (The catch block returns; nothing is thrown.)
C17_ImportRejectsNonJson ==
  [][\A doc \in ImportDocs :
       (ImportRoom(doc) /\ ~doc.json)
         => /\ importResult' = "false"
            /\ UNCHANGED importTargets]_vars

\* a text that is not JSON has been imported into a furnished room
C17_Witness ==
  /\ lastEvent.kind = "import"
  /\ importResult = "false"
  /\ furniture # <<>>
  /\ selectedId # Null

\* C18: exportRoom() writes the furniture as it is, and importRoom of that
\* text returns true and yields the exported furniture: the same items in
\* the same order, with the same id, type, position, rotation, dimensions
\* and colour.
C18_ImportOfExport ==
  [][/\ ExportRoom
          => /\ exported'.json
             /\ {"roomDimensions", "furniture"} \subseteq exported'.fields
             /\ exported'.furniture = furniture
     /\ (exported.json /\ ImportRoom(exported))
          => /\ importResult' = "true"
             /\ Len(furniture') = Len(exported.furniture)
             /\ \A k \in Indices(exported.furniture) :
                  /\ furniture'[k].id = exported.furniture[k].id
                  /\ furniture'[k].type = exported.furniture[k].type
                  /\ furniture'[k].position = exported.furniture[k].position
                  /\ furniture'[k].rotation = exported.furniture[k].rotation
                  /\ furniture'[k].dimensions = exported.furniture[k].dimensions
                  /\ furniture'[k].color = exported.furniture[k].color]_vars

\* the export of a room of two items, one of them moved, has been imported
C18_Witness ==
  /\ lastEvent.kind = "import"
  /\ importResult = "true"
  /\ undefinedFields = {}
  /\ exported.json
  /\ Len(furniture) = 2
  /\ furniture = exported.furniture
  /\ \E k \in Indices(furniture) : furniture[k].position[1] # 0

\* C19: snapToGrid is idempotent, snap(snap(v)) = snap(v), for the cell of
\* large items (gridSize / 4) and for the cell of small items (5 mm).
C19_SnapIdempotent ==
  [][(probe.calls >= 1 /\ Snap) => probe'.snapped = probe.snapped]_vars

\* a coordinate off the grid has been snapped to a cell away from the
\* origin, and the result has been snapped again
C19_Witness ==
  /\ probe.calls = MaxSnaps
  /\ probe.snapped # probe.v
  /\ probe.snapped # 0
  /\ probe.snapped = snapToGrid(probe.type, probe.grid, probe.v)

\* the (id, type) pairs of the items of the room and of every snapshot
knownTypes(furn, stack) ==
  {<<furn[k].id, furn[k].type>> : k \in Indices(furn)}
    \cup UNION {{<<stack[n][k].id, stack[n][k].type>> : k \in Indices(stack[n])} :
                  n \in DOMAIN stack}

\* C20: an item's type, and with it its size class, never changes after
\* the item was created: whatever the store does (position, rotation,
\* dimension, colour or orientation update, arrangement, drag, delete,
\* undo), an id keeps the type it has in the room or in a snapshot.
C20_TypeNeverChanges ==
  [][\A a \in knownTypes(furniture, undoStack),
        b \in knownTypes(furniture', undoStack') : a[1] = b[1] => a[2] = b[2]]_vars

\* a book that was recoloured and moved, in a room with a snapshot
C20_Witness ==
  /\ undoStack # <<>>
  /\ \E k \in Indices(furniture) :
       /\ furniture[k].type = "book"
       /\ furniture[k].color \in PaletteColors
       /\ furniture[k].position # <<0, 0, 0>>

\* the host of the detail mode, and the books its tools reach, before a step
host == Find(furniture, detailModeTarget)

members == getBooksOnFurniture(furniture, host)

\* C21: after arrangeRow on a host whose member books are b1..bn in
\* collection order, b1's x is the host's left edge plus the margin plus
\* half of b1's spine thickness, and from a book to the next x grows by
\* half of the one's thickness plus half of the other's plus the gap, so x
\* strictly increases; every member has the y of the host's base surface,
\* the host's z, and stands upright.
C21_RowInPlacementOrder ==
  [][ArrangeRow =>
       LET b == inOrder(members)
       IN /\ furniture'[b[1]].position[1]
               = host.position[1] - Mm(host.dimensions.width) \div 2
                   + Mm(RowMargin) + spine(furniture[b[1]]) \div 2
          /\ \A n \in 1 .. (Len(b) - 1) :
               /\ furniture'[b[n + 1]].position[1] - furniture'[b[n]].position[1]
                    = spine(furniture[b[n]]) \div 2
                        + spine(furniture[b[n + 1]]) \div 2 + Mm(RowGap)
               /\ furniture'[b[n + 1]].position[1] > furniture'[b[n]].position[1]
          /\ \A k \in members :
               /\ furniture'[k].position[2] = host.position[2] + Mm(BaseOffset)
               /\ furniture'[k].position[3] = host.position[3]
               /\ furniture'[k].orientation = "upright"]_vars

\* a row of five members or more, of different thickness, that were lying
\* from right to left and on two levels
C21_Witness ==
  /\ lastEvent.kind = "row"
  /\ Cardinality(members) >= 5
  /\ \E j \in members, k \in members :
       /\ spine(furniture[j]) # spine(furniture[k])
       /\ j < k
       /\ undoStack[Len(undoStack)][j].position[1]
            > undoStack[Len(undoStack)][k].position[1]
       /\ undoStack[Len(undoStack)][j].position[2]
            # undoStack[Len(undoStack)][k].position[2]
       /\ furniture[j].position[1] < furniture[k].position[1]

\* C22: after spaceEvenly on two members or more, the members keep their
\* left-to-right order, the leftmost is at the host's left edge plus the
\* margin, the rightmost at the host's right edge minus the margin, all
\* steps in x from a member to the next are equal (to the position unit),
\* and every member keeps its y and its z.
C22_SpaceEvenly ==
  [][SpaceEvenly =>
       LET minX == host.position[1] - Mm(host.dimensions.width) \div 2
                     + Mm(SpaceMargin)
           maxX == host.position[1] + Mm(host.dimensions.width) \div 2
                     - Mm(SpaceMargin)
           after == sortedByX(furniture', members)
       IN /\ \A j \in members, k \in members :
               furniture[j].position[1] < furniture[k].position[1]
                 => furniture'[j].position[1] < furniture'[k].position[1]
          /\ furniture'[after[1]].position[1] = minX
          /\ furniture'[after[Len(after)]].position[1] = maxX
          /\ \A m \in 1 .. (Len(after) - 1), n \in 1 .. (Len(after) - 1) :
               Abs((furniture'[after[m + 1]].position[1]
                      - furniture'[after[m]].position[1])
                   - (furniture'[after[n + 1]].position[1]
                        - furniture'[after[n]].position[1])) <= 1
          /\ \A k \in members :
               /\ furniture'[k].position[2] = furniture[k].position[2]
               /\ furniture'[k].position[3] = furniture[k].position[3]]_vars

\* three members or more have been spaced that were lying from right to
\* left, on two levels and at different depths
C22_Witness ==
  /\ lastEvent.kind = "space"
  /\ Cardinality(members) >= 3
  /\ \E j \in members, k \in members :
       /\ j < k
       /\ undoStack[Len(undoStack)][j].position[1]
            > undoStack[Len(undoStack)][k].position[1]
       /\ furniture[j].position[1] > furniture[k].position[1]
       /\ furniture[j].position[2] # furniture[k].position[2]
       /\ furniture[j].position[3] # furniture[k].position[3]

\* C23: alignBooks sets the z of every member to the host's centre z and
\* leaves every member's x and y as they were.
C23_AlignSetsZOnly ==
  [][AlignBooks =>
       \A k \in members :
         /\ furniture'[k].position[3] = host.position[3]
         /\ furniture'[k].position[1] = furniture[k].position[1]
         /\ furniture'[k].position[2] = furniture[k].position[2]]_vars

\* members at different x and y, one of them off the host's centre line
\* before, have been aligned
C23_Witness ==
  /\ lastEvent.kind = "align"
  /\ \E j \in members, k \in members :
       /\ furniture[j].position[1] # furniture[k].position[1]
       /\ furniture[j].position[2] # furniture[k].position[2]
       /\ furniture[j].position[2] # host.position[2]
       /\ undoStack[Len(undoStack)][j].position[3] # host.position[3]
       /\ furniture[j].position[3] = host.position[3]

\* C24: arrangeShrine repositions at most 11 eligible items (books and
\* manga, in collection order).  The first is the centrepiece: at the
\* host's centre x, raised, moved forward, face out.  The others stand
\* upright on the base surface at the host's z, alternately left and right
\* of the centre: the first of a side at the centrepiece's half-width plus
\* the inset, each further one beyond its neighbour of the same side by
\* the fixed gap only.  Eligible items beyond the 11th are left as they are.
C24_Shrine ==
  [][ArrangeShrine =>
       LET e == basicBooks(furniture, host)
           last == Min(Len(e), ShrineLimit)
           x(n) == furniture'[e[n]].position[1]
           out(n) == IF n % 2 = 0 THEN host.position[1] - x(n)
                     ELSE x(n) - host.position[1]
       IN /\ furniture'[e[1]].position
               = <<host.position[1],
                   host.position[2] + Mm(BaseOffset) + Mm(ShrineRaise),
                   host.position[3] + Mm(ShrineForward)>>
          /\ furniture'[e[1]].orientation = "faceout"
          /\ \A n \in 2 .. last :
               /\ furniture'[e[n]].orientation = "upright"
               /\ furniture'[e[n]].position[2] = host.position[2] + Mm(BaseOffset)
               /\ furniture'[e[n]].position[3] = host.position[3]
               /\ IF n <= 3
                  THEN out(n) = faceWidth(furniture[e[1]]) \div 2 + Mm(ShrineInset)
                                  + spine(furniture[e[n]]) \div 2
                  ELSE out(n) - out(n - 2)
                         = spine(furniture[e[n - 2]]) \div 2 + Mm(ShrineGap)
                             + spine(furniture[e[n]]) \div 2
          /\ \A n \in (last + 1) .. Len(e) : furniture'[e[n]] = furniture[e[n]]]_vars

\* a shrine has been made on a host with more than 11 eligible items
C24_Witness ==
  /\ lastEvent.kind = "shrine"
  /\ Len(basicBooks(furniture, host)) > ShrineLimit
  /\ furniture[basicBooks(furniture, host)[1]].orientation = "faceout"
  /\ furniture[basicBooks(furniture, host)[Len(basicBooks(furniture, host))]]
       = undoStack[Len(undoStack)][basicBooks(furniture, host)[Len(basicBooks(furniture, host))]]

\* C25: an arrangement tool (shrine, row, stack, align, space evenly)
\* changes only the position and the orientation of member items: no
\* item's id, type, rotation, dimensions or colour changes, the collection
\* keeps its items and their order, and an item that is not a member (the
\* host among them) stays as it is.  No collision check stands between the
\* tool and its result.
C25_ArrangeWritesPlacesOnly ==
  [][(\/ ArrangeShrine
      \/ ArrangeRow
      \/ \E odd \in StackOffsets, even \in StackOffsets : ArrangeStack(odd, even)
      \/ AlignBooks
      \/ SpaceEvenly)
       => /\ Len(furniture') = Len(furniture)
          /\ \A k \in Indices(furniture) :
               IF k \in members
               THEN furniture'[k] =
                      [furniture[k] EXCEPT !.position = furniture'[k].position,
                                           !.orientation = furniture'[k].orientation]
               ELSE furniture'[k] = furniture[k]]_vars

\* a row or a pile has been made, and a member that it moved now lies
\* inside the desk beside the host
C25_Witness ==
  /\ lastEvent.kind \in {"row", "stack"}
  /\ \E k \in members :
       /\ furniture[k].position # undoStack[Len(undoStack)][k].position
       /\ checkCollision(furniture[k], furniture[k].position[1],
                         furniture[k].position[2], furniture[k].position[3],
                         furniture, detailModeTarget)

\* the rotation-projected footprint of an item along x and along z, as
\* half extents in position units: width and depth as they are at 0 and
\* 180 degrees, swapped at 90 and 270, projected in between
footprintX(f) ==
  CASE f.rotation % 180 = 0 -> Mm(f.dimensions.width) \div 2
    [] f.rotation % 180 = 90 -> Mm(f.dimensions.depth) \div 2
    [] OTHER -> (f.dimensions.width + f.dimensions.depth) * Cos45
                  * (PosScale \div (2 * TrigScale))

footprintZ(f) ==
  CASE f.rotation % 180 = 0 -> Mm(f.dimensions.depth) \div 2
    [] f.rotation % 180 = 90 -> Mm(f.dimensions.width) \div 2
    [] OTHER -> (f.dimensions.width + f.dimensions.depth) * Cos45
                  * (PosScale \div (2 * TrigScale))

\* the shrink factor of an item's size class, in per cent
shrinkFactor(f) == IF f.type \in smallTypes THEN SmallShrink ELSE LargeShrink

\* the open intervals (lo, hi) and (lo2, hi2) share a point
strictlyOverlap(lo, hi, lo2, hi2) == lo < hi2 /\ lo2 < hi

\* the box of f placed at p strictly overlaps the box of g where g is, on
\* all three axes; every extent is multiplied by 100
boxesOverlap(f, p, g) ==
  /\ strictlyOverlap(PerCent * p[1] - shrinkFactor(f) * footprintX(f),
                     PerCent * p[1] + shrinkFactor(f) * footprintX(f),
                     PerCent * g.position[1] - shrinkFactor(g) * footprintX(g),
                     PerCent * g.position[1] + shrinkFactor(g) * footprintX(g))
  /\ strictlyOverlap(PerCent * p[2],
                     PerCent * p[2] + shrinkFactor(f) * Mm(f.dimensions.height),
                     PerCent * g.position[2],
                     PerCent * g.position[2] + shrinkFactor(g) * Mm(g.dimensions.height))
  /\ strictlyOverlap(PerCent * p[3] - shrinkFactor(f) * footprintZ(f),
                     PerCent * p[3] + shrinkFactor(f) * footprintZ(f),
                     PerCent * g.position[3] - shrinkFactor(g) * footprintZ(g),
                     PerCent * g.position[3] + shrinkFactor(g) * footprintZ(g))

\* g is not exempt as a collision partner of f: it is another item, not the
\* host of the detail mode, and not a small item beside a small f
nonExempt(f, g) ==
  /\ g.id # f.id
  /\ ~(detailModeTarget # Null /\ g.id = detailModeTarget)
  /\ ~(f.type \in smallTypes /\ g.type \in smallTypes)

\* C26: the collision check of a candidate at (x, y, z) returns true
\* exactly when the box of some other non-exempt item strictly overlaps the
\* candidate's box on all three axes; a box spans x and z by the item's
\* rotation-projected footprint and y from the item's base up by its
\* height, each scaled by the item's own shrink factor (0.5 small, 0.95
\* large); boxes that only touch do not collide.
C26_CollisionIsStrictOverlap ==
  [][lastEvent'.kind = "check"
       => (lastEvent'.collision
             <=> \E k \in Indices(furniture) :
                   /\ nonExempt(Find(furniture, lastEvent'.id), furniture[k])
                   /\ boxesOverlap(Find(furniture, lastEvent'.id),
                                   lastEvent'.startPos, furniture[k]))]_vars

\* the check has said no for a desk whose box touches the bookshelf's box
\* along x and overlaps it along y and z
C26_Witness ==
  /\ lastEvent.kind = "check"
  /\ ~lastEvent.collision
  /\ detailModeTarget = Null
  /\ Find(furniture, lastEvent.id).type = "desk"
  /\ BoxAt(Find(furniture, lastEvent.id), lastEvent.startPos[1],
           lastEvent.startPos[2], lastEvent.startPos[3]).minX
       = BoxOf(furniture[1]).maxX
  /\ OverlapOrTouch(BoxAt(Find(furniture, lastEvent.id), lastEvent.startPos[1],
                          lastEvent.startPos[2], lastEvent.startPos[3]),
                    BoxOf(furniture[1]))

\* C27: in detail mode the host is never a collision partner: the release
\* of an item whose box overlaps the host's box and no other commits.  In
\* the room the release of an item whose box overlaps a large item's box
\* reverts.  No item is a collision partner of itself.
C27_HostIsNoPartner ==
  [][\A i \in DOMAIN session :
       DragEnd(i) =>
         LET item == Find(furniture, i)
             others == {k \in Indices(furniture) :
                          /\ furniture[k].id # i
                          /\ Overlap(BoxOf(item), BoxOf(furniture[k]))}
         IN /\ (/\ detailModeTarget # Null
                /\ others # {}
                /\ \A k \in others : furniture[k].id = detailModeTarget)
                 => (furniture' = furniture /\ lastEvent'.sound)
            /\ (/\ detailModeTarget = Null
                /\ \E k \in others : ~isSmallItem(furniture[k].type))
                 => Find(furniture', i).position = session[i].startPos
            /\ ~collidesWith(item, item.position[1], item.position[2],
                             item.position[3], item, detailModeTarget)]_vars

\* in detail mode an item has been moved and released inside the host's box
C27_Witness ==
  /\ detailModeTarget # Null
  /\ detailModeTarget \in IdsOf(furniture)
  /\ lastEvent.kind = "release"
  /\ lastEvent.sound
  /\ lastEvent.id \in IdsOf(furniture)
  /\ Find(furniture, lastEvent.id).position # lastEvent.startPos
  /\ Overlap(BoxOf(Find(furniture, lastEvent.id)),
             BoxOf(Find(furniture, detailModeTarget)))


\* C28: a detail-mode drop places the new item at the host's surface nearest
\* to the aimed height; the surfaces are the base surface and, for shelf-type
\* hosts, 4 evenly spaced levels up to the top (other hosts: the top only);
\* of two equally near surfaces the lower one is taken.
hostSurfaces(target) ==
  {target.position[2] + Mm(ShelfOffset)}
    \cup (IF isShelfType(target.type)
          THEN {target.position[2] + (i * Mm(target.dimensions.height)) \div ShelfCount :
                  i \in 1 .. ShelfCount}
          ELSE {target.position[2] + Mm(target.dimensions.height)})

C28_DropOnNearestSurface ==
  [][lastEvent'.kind = "drop" =>
       LET y == Find(furniture', lastEvent'.id).position[2]
           aim == lastEvent'.startPos[2]
           allowed == hostSurfaces(Find(furniture, detailModeTarget))
       IN /\ Len(furniture') = Len(furniture) + 1
          /\ y \in allowed
          /\ \A s \in allowed :
               /\ Abs(aim - y) <= Abs(aim - s)
               /\ Abs(aim - y) = Abs(aim - s) => y <= s]_vars

\* an item was dropped with the pointer aiming exactly halfway between two
\* surfaces of the host, and lies on the lower one
C28_Witness ==
  /\ lastEvent.kind = "drop" /\ lastEvent.id \in IdsOf(furniture)
  /\ detailModeTarget \in IdsOf(furniture)
  /\ LET y == Find(furniture, lastEvent.id).position[2]
         aim == lastEvent.startPos[2]
     IN \E s \in hostSurfaces(Find(furniture, detailModeTarget)) :
          s > y /\ s - aim = aim - y


\* C29: after every drag release, whether it commits or reverts, the dragged
\* item's resulting position passes the collision check against all other
\* items.
C29_ReleasePassesCheck ==
  (lastEvent.kind = "release" /\ lastEvent.id \in IdsOf(furniture)) =>
    LET item == Find(furniture, lastEvent.id)
    IN ~checkCollision(item, item.position[1], item.position[2], item.position[3],
                       furniture, detailModeTarget)


\* C30: undo() replaces only the furniture collection (and updates the stack
\* and canUndo): the scanned items, the room dimensions, the grid size, the
\* selection and the detail-mode target are exactly as they were before it.
C30_UndoFrame ==
  [][lastEvent'.kind = "undo" =>
       /\ scannedItems' = scannedItems
       /\ roomDimensions' = roomDimensions
       /\ gridSize' = gridSize
       /\ selectedId' = selectedId
       /\ selectedType' = selectedType
       /\ detailModeTarget' = detailModeTarget]_vars

\* an undo took the selected item out of the room and left it selected
C30_Witness ==
  /\ lastEvent.kind = "undo"
  /\ selectedType = "furniture" /\ selectedId # Null
  /\ selectedId \notin IdsOf(furniture)


\* C31: in every reachable state selectedId is null or the id of an item
\* that exists, in furniture or in the scanned items.
C31_SelectionExists ==
  selectedId = Null \/ selectedId \in IdsOf(furniture) \cup IdsOf(scannedItems)

\* C32: in every reachable state detailModeTarget is null or the id of a
\* furniture item that exists.
C32_DetailTargetExists ==
  detailModeTarget = Null \/ detailModeTarget \in IdsOf(furniture)

\* C33: in every reachable state selectedType is null exactly when
\* selectedId is null.
C33_SelectedTypeFollowsId ==
  (selectedType = "null") <=> (selectedId = Null)


\* C34: clearRoom and a successful importRoom leave the undo stack and
\* canUndo unchanged, so the next undo() replaces the cleared or imported
\* furniture with the newest snapshot taken before the clear or import.
replacedRoom(event, result) ==
  event.kind = "clear" \/ (event.kind = "import" /\ result = "true")

C34_ClearAndImportKeepStack ==
  [][/\ replacedRoom(lastEvent', importResult') =>
          undoStack' = undoStack /\ canUndo' = canUndo
     /\ (replacedRoom(lastEvent, importResult) /\ lastEvent'.kind = "undo") =>
          furniture' = undoStack[Len(undoStack)]]_vars

\* the room was cleared or imported over a stack whose newest snapshot
\* is another room than the one now shown, and undo is enabled
C34_Witness ==
  /\ replacedRoom(lastEvent, importResult)
  /\ canUndo /\ undoStack # <<>>
  /\ undoStack[Len(undoStack)] # furniture
  /\ undoStack[Len(undoStack)] # <<>>


\* C35: an arrangement tool invoked when no eligible member is on the host
\* (fewer than 2 members for space-evenly) changes nothing: no item moves,
\* no snapshot is pushed and canUndo keeps its value.
C35_IdleArrangementChangesNothing ==
  [][(/\ lastEvent'.kind \in ArrangeKinds
      /\ ~arrangeable(lastEvent'.kind, furniture, host)) =>
       /\ furniture' = furniture
       /\ undoStack' = undoStack
       /\ canUndo' = canUndo]_vars

\* space-evenly was pressed with exactly one book on the host
C35_Witness ==
  /\ lastEvent.kind = "space" /\ ~lastEvent.saved
  /\ Cardinality(members) = 1


\* C36: arrangeRow is idempotent on positions and orientations: run a second
\* time with nothing done in between, it leaves every item where the first
\* run put it, also when the first run moved members out of the range that
\* getBooksOnFurniture selects the host's members from.
C36_RowIdempotent ==
  [][(/\ lastEvent.kind = "row" /\ lastEvent.saved
      /\ lastEvent'.kind = "row" /\ lastEvent'.saved) =>
       furniture' = furniture]_vars

\* arrangeRow has run twice in a row, and a book that was a member for the
\* first run stands in the row outside the members' range
C36_Witness ==
  /\ lastEvent.kind = "row" /\ lastEvent.saved
  /\ Len(undoStack) >= 3
  /\ LET before == undoStack[Len(undoStack) - 1]
         between == undoStack[Len(undoStack)]
     IN /\ between # before
        /\ between = rowFurniture(before, Find(before, detailModeTarget))
        /\ furniture = between
        /\ \E k \in getBooksOnFurniture(before, Find(before, detailModeTarget)) :
             k \notin members


\* C37: if loadLibrary and addItem run concurrently, then once both have
\* completed without error the item list contains every model stored in the
\* database, the newly added one included, in every interleaving of their
\* asynchronous steps.
C37_LibraryListsEveryModel ==
  (makerspace.load.pc = "done" /\ makerspace.add.pc = "done") =>
    makerspace.db \subseteq ItemIds(makerspace.items)

====
